---------------------------- MODULE Spec2Model ----------------------------
(***************************************************************************)
(* A model of the AIT*-style kinodynamic planner of vox_nav               *)
(* (vox_nav_planning/experimental/AITStarKin.hpp): its graph search       *)
(* (computeShortestPath, the heuristics, the goal visitor) and the        *)
(* planner driver around it.                                              *)
(*                                                                        *)
(* Costs are doubles in the code.  The model counts them in units of 0.1  *)
(* so that every value it needs is an integer: min_dist_between_vertices_ *)
(* (0.1) is 1 and the default g of a vertex (1.0e+3) is 10000.            *)
(* Vertex descriptors are 1-based here (0-based in the code).             *)
(***************************************************************************)
EXTENDS Integers, Sequences, FiniteSets, TLC

----------------------------------------------------------------------------
(* Bounds of the model *)

\* number of vertices of the graphs the search specification draws
NV == 3
\* largest finite edge weight the search specification draws
MaxCost == 2
\* number of computeShortestPath calls in one behaviour of the search specification
MaxPasses == 2

----------------------------------------------------------------------------
(* Cost values *)

\* std::numeric_limits<double>::max(): the distance_inf boost's named-parameter
\* searches use when none is given
DistanceInf == 1000000
\* std::numeric_limits<double>::infinity(): opt_->infiniteCost().value() and the
\* cost PrecomputedCostHeuristic starts from
Infinity == 1000001
\* VertexProperty::g{1.0e+3}
DefaultG == 10000

\* boost::closed_plus<double>(inf) with inf = DistanceInf; a + b on doubles,
\* where +infinity absorbs
Plus(a, b) ==
    IF a = DistanceInf \/ b = DistanceInf THEN DistanceInf
    ELSE IF a = Infinity \/ b = Infinity THEN Infinity
    ELSE a + b

----------------------------------------------------------------------------
(* Graphs *)

\* struct VertexProperty; control = 0 is the null pointer
VertexProperty(state, control, control_duration, id) ==
    [state |-> state, control |-> control, control_duration |-> control_duration,
     id |-> id, g |-> DefaultG, blacklisted |-> FALSE]

\* GraphT: vp the vertex store (vecS), E the edge set (setS, undirectedS),
\* w the edge_weight_t property map
EmptyGraph == [vp |-> << >>, E |-> {}, w |-> << >>]

num_vertices(g) == Len(g.vp)

vertices(g) == 1..Len(g.vp)

Edge(u, v) == {u, v}

RECURSIVE SortedSeq(_)
SortedSeq(S) ==
    IF S = {} THEN << >>
    ELSE LET m == CHOOSE x \in S : \A y \in S : x <= y
         IN  <<m>> \o SortedSeq(S \ {m})

\* boost::out_edges(v, g): with setS the out-edges of v are ordered by target
out_edges(v, g) == SortedSeq({u \in vertices(g) : u # v /\ Edge(u, v) \in g.E})

\* opt_->motionCost(a, b) of a path-length objective, si_->distance(a, b)
motionCost(a, b) == IF a >= b THEN a - b ELSE b - a

distanceFunction(a, b) == motionCost(a, b)


----------------------------------------------------------------------------
(* The validity oracle and the state space *)

\* largest coordinate of the (one-dimensional) state space the model samples
MaxPos == 2

States == 0..MaxPos

\* number of worker threads the model runs (num_threads_)
NumThreads == 2

Threads == 0..(NumThreads - 1)

VARIABLES
    Valid,            \* si_->isValid: the set of states the oracle accepts
    g_geometrics_,    \* std::vector<GraphT> g_geometrics_, one per thread
    g_controls_,      \* std::vector<GraphT> g_controls_, one per thread
    srch,             \* the computeShortestPath call in progress
    passes,           \* the number of computeShortestPath calls made so far
    geometrics_nn_,   \* the nearest-neighbour index of each geometric graph
    controls_nn_,     \* the nearest-neighbour index of each control graph
    start_vertex_,    \* the global copy of the start vertex property
    goal_vertex_,     \* the global copy of the goal vertex property
    max_dist_between_vertices_,  \* the configured longest edge
    g_,               \* the plan refiner's supervoxel adjacency graph
    supervoxel_clusters_,  \* the plan refiner's clusters, by label
    plugin,           \* the class of the planner plugin instance
    is_enabled_,      \* whether the plugin is enabled
    is_octomap_ready_,  \* volatile bool is_octomap_ready_
    octomap_msg_,     \* the octomap message the plugin holds
    fcl_octree_,      \* the collision tree built from the octomap, or NoTree
    fcl_tree_from_octomap_once_,  \* whether the once-flag has been used
    octomap_mutex_,   \* whether octomap_mutex_ is held
    callback,         \* the octomapCallback in progress and its message
    delivered,        \* the octomap messages delivered so far
    validity,         \* the call of isStateValid that has just returned, if any
    plan,             \* the call of createPlan that has just returned, if any
    start_state,      \* the state object propagate is given as start
    result_state,     \* the state object propagate is given as result
    propagations,     \* the calls of propagate made so far
    call,             \* the call of a helper function that has just returned, if any
    bestGeometricCost_, bestGeometricPath_,
    bestControlCost_, bestControlPath_,
    mutex,            \* the thread holding the best-path mutex, or NoThread
    status,           \* Idle, Running, Solved or NoSolution
    ptc,              \* whether the termination condition has tripped
    pc,               \* where each worker thread stands in its loop
    rounds,           \* the rounds begun so far, over all workers
    samples,          \* each worker's current batch
    found,            \* each worker's paths of the current round
    touched           \* <<t, i>>: worker t has accessed index i of a per-thread vector

isValid_unchecked(state) == TRUE

\* si_->isValid(state)
isValid(state) == state \in Valid

----------------------------------------------------------------------------
(* Vertex accessors *)

getVertex_first(geos, id, thread_id) == [thread |-> 0, control |-> FALSE, id |-> id]

\* getVertex(id, thread_id): &g_geometrics_[thread_id][id]
getVertex(geos, id, thread_id) == [thread |-> thread_id, control |-> FALSE, id |-> id]

\* getVertexMutable(id, thread_id): &g_geometrics_[thread_id][id]
getVertexMutable(geos, id, thread_id) == [thread |-> thread_id, control |-> FALSE, id |-> id]

\* getVertexControls(id, thread_id): &g_controls_[thread_id][id]
getVertexControls(ctls, id, thread_id) == [thread |-> thread_id, control |-> TRUE, id |-> id]

\* the graph a vertex pointer points into
GraphAt(S, ptr) == IF ptr.control THEN S.ctls[ptr.thread] ELSE S.geos[ptr.thread]

\* whether the pointer lies inside the vertex store (operator[] does not check)
InStore(S, ptr) == ptr.id \in vertices(GraphAt(S, ptr))

Deref(S, ptr) == GraphAt(S, ptr).vp[ptr.id]

\* the graph the search runs on: the GraphT & g argument
G(S) == IF S.gref.control THEN S.ctls[S.gref.thread] ELSE S.geos[S.gref.thread]

WithG(S, g) ==
    IF S.gref.control
    THEN [S EXCEPT !.ctls[S.gref.thread] = g]
    ELSE [S EXCEPT !.geos[S.gref.thread] = g]

----------------------------------------------------------------------------
(* Heuristics.  Each returns the set of outcomes [h, S]: the value and the  *)
(* search state with the heuristic's writes.  A read past the end of the    *)
(* vertex store is undefined behaviour: any state and any g may be read,    *)
(* and the write of blacklisted lands outside the graph.  S.touched records *)
(* the indices of the per-thread vectors the call has accessed.             *)

Touch(S, ptr) == [S EXCEPT !.touched = @ \cup {ptr.thread}]

\* GenericDistanceHeuristic::operator()
GenericDistanceHeuristic(S, i) ==
    LET hp  == S.heuristic
        ptr == IF hp.control
               THEN getVertexControls(S.ctls, i, hp.thread_id)
               ELSE getVertex(S.geos, i, hp.thread_id)
        T   == Touch(S, ptr)
    IN  IF InStore(S, ptr)
        THEN {[h |-> motionCost(Deref(S, ptr).state, hp.goal), S |-> T]}
        ELSE {[h |-> motionCost(st, hp.goal), S |-> [T EXCEPT !.oob = TRUE]] : st \in States}

PrecomputedCostHeuristic_marks(S, i) ==
    LET hp  == S.heuristic
        ptr == getVertex(S.geos, i, hp.thread_id)
        mut == getVertexMutable(S.geos, i, hp.thread_id)
        T   == [Touch(Touch(S, ptr), mut) EXCEPT !.oob = ~(InStore(S, ptr) /\ InStore(S, mut))]
    IN  IF InStore(S, ptr) /\ InStore(S, mut)
        THEN {[h |-> IF isValid(Deref(S, ptr).state) THEN Deref(S, ptr).g ELSE Infinity,
               S |-> [T EXCEPT !.geos[mut.thread].vp[mut.id].blacklisted = TRUE]]}
        ELSE {[h |-> Infinity, S |-> T]}

\* PrecomputedCostHeuristic::operator()
PrecomputedCostHeuristic(S, i) ==
    LET hp  == S.heuristic
        ptr == getVertex(S.geos, i, hp.thread_id)
        mut == getVertexMutable(S.geos, i, hp.thread_id)
        T   == Touch(S, ptr)
    IN  IF InStore(S, ptr) /\ InStore(S, mut)
        THEN IF isValid(Deref(S, ptr).state)
             THEN {[h |-> Deref(S, ptr).g, S |-> T]}
             ELSE {[h |-> Infinity,
                    S |-> [Touch(T, mut) EXCEPT
                              !.geos[mut.thread].vp[mut.id].blacklisted = TRUE]]}
        ELSE {[h |-> x, S |-> [T EXCEPT !.oob = TRUE]] : x \in {0, DefaultG, Infinity}}

\* largest value the model lets the refiner's heuristic return
MaxH == 1

\* vox_nav_utilities::distance_heuristic: its code is outside the sources;
\* a cost that is not negative, with no write to the graph
distance_heuristic(S, i) == {[h |-> x, S |-> S] : x \in 0..MaxH}

\* the Heuristic template argument of computeShortestPath, and the heuristic
\* find_astar_path passes
Heuristic(S, i) ==
    IF S.heuristic.kind = "precomputed"
    THEN PrecomputedCostHeuristic(S, i)
    ELSE IF S.heuristic.kind = "distance"
    THEN distance_heuristic(S, i)
    ELSE GenericDistanceHeuristic(S, i)

----------------------------------------------------------------------------
(* The searches of the boost graph library, as computeShortestPath calls    *)
(* them.  A search state S holds the graphs, the graph reference gref, the  *)
(* heuristic object, the predecessor map p, the distance map d, the queue Q *)
(* (entries <<rank, vertex>>), the colour map of Dijkstra's search, the     *)
(* visitor's counter, the set of vertices the queue has served (examined)   *)
(* and st: "run" while the queue is served, "thrown" once an exception exc  *)
(* is in flight, "exhausted" once the search has returned normally.  The    *)
(* order in which a queue serves entries of equal   *)
(* rank is not part of the library's contract: any of them may be next.     *)

Identity(g) == [u \in vertices(g) |-> u]

\* boost::relax on an undirected graph (astar_search_no_init_tree): the edge
\* is tried from v to w and then from w to v; <<decreased, p, d>>
relax(v, w, we, p, d) ==
    IF Plus(d[v], we) < d[w]
    THEN <<TRUE, [p EXCEPT ![w] = v], [d EXCEPT ![w] = Plus(d[v], we)]>>
    ELSE IF Plus(d[w], we) < d[v]
    THEN <<TRUE, [p EXCEPT ![v] = w], [d EXCEPT ![v] = Plus(d[w], we)]>>
    ELSE <<FALSE, p, d>>

\* boost::relax_target (dijkstra_shortest_paths): only the target improves
relax_target(v, w, we, p, d) ==
    IF Plus(d[v], we) < d[w]
    THEN <<TRUE, [p EXCEPT ![w] = v], [d EXCEPT ![w] = Plus(d[v], we)]>>
    ELSE <<FALSE, p, d>>

\* the queue entries that may be served next: those of least rank
MinEntries(Q) == {i \in 1..Len(Q) : \A j \in 1..Len(Q) : Q[i][1] <= Q[j][1]}

Remove(Q, i) == SubSeq(Q, 1, i - 1) \o SubSeq(Q, i + 1, Len(Q))

\* examine_vertex, had it compared the examined vertex with the search's start
examine_vertex_start(S, u) ==
    IF u = S.start_vertex
    THEN [S EXCEPT !.num_visits = @ + 1, !.st = "thrown", !.exc = "FoundVertex"]
    ELSE [S EXCEPT !.num_visits = @ + 1]

\* SimpleVertexVisitor::examine_vertex: count the visit, throw at the goal
examine_vertex(S, u) ==
    IF u = S.goal_vertex
    THEN [S EXCEPT !.num_visits = @ + 1, !.st = "thrown", !.exc = "FoundVertex"]
    ELSE [S EXCEPT !.num_visits = @ + 1]

\* vox_nav_utilities::custom_goal_visitor(goal_vertex, &num_visited_nodes):
\* count the visit, throw FoundGoal at the goal
custom_goal_visitor(S, u) ==
    IF u = S.goal_vertex
    THEN [S EXCEPT !.num_visits = @ + 1, !.st = "thrown", !.exc = "FoundGoal"]
    ELSE [S EXCEPT !.num_visits = @ + 1]

\* the visitor argument of the search
visitor(S, u) ==
    IF S.fn = "find_astar_path" THEN custom_goal_visitor(S, u) ELSE examine_vertex(S, u)

\* boost::astar_search_tree, initialisation: every distance and cost at
\* DistanceInf, every vertex its own predecessor, the start at distance 0 and
\* cost h(start), the start in the queue
astar_init(S0) ==
    LET g == G(S0)
        s == S0.start_vertex
    IN  {[o.S EXCEPT !.p = Identity(g),
                     !.d = [u \in vertices(g) |-> IF u = s THEN 0 ELSE DistanceInf],
                     !.Q = << <<o.h, s>> >>,
                     !.color = [u \in vertices(g) |-> "white"],
                     !.st = "run"] : o \in Heuristic(S0, s)}

\* one out-edge (v, w) of the vertex being examined by the tree search:
\* relax it; on a decrease compute the target's rank with h and push it
astar_edge(S, v, w) ==
    LET we == G(S).w[Edge(v, w)]
        r  == relax(v, w, we, S.p, S.d)
    IN  IF S.st = "thrown" THEN {S}
        ELSE IF we < 0 THEN {[S EXCEPT !.st = "thrown", !.exc = "negative_edge"]}
        ELSE IF r[1]
        THEN {[o.S EXCEPT !.p = r[2], !.d = r[3],
                          !.Q = Append(S.Q, <<Plus(r[3][w], o.h), w>>)] :
              o \in Heuristic(S, w)}
        ELSE {S}

RECURSIVE astar_edges(_, _, _)
astar_edges(S, v, ws) ==
    IF ws = << >> THEN {S}
    ELSE UNION {astar_edges(S2, v, Tail(ws)) : S2 \in astar_edge(S, v, Head(ws))}

\* one turn of the loop of astar_search_no_init_tree: serve entry i of the
\* queue, examine its vertex, relax its out-edges
astar_step(S, i) ==
    LET v  == S.Q[i][2]
        S1 == visitor([S EXCEPT !.Q = Remove(S.Q, i), !.examined = @ \cup {v}], v)
    IN  IF S1.st = "thrown" THEN {S1}
        ELSE {IF S2.st = "run" /\ S2.Q = << >> THEN [S2 EXCEPT !.st = "exhausted"] ELSE S2 :
              S2 \in astar_edges(S1, v, out_edges(v, G(S1)))}

\* boost::dijkstra_shortest_paths, initialisation
dijkstra_init(S0) ==
    LET g == G(S0)
        s == S0.start_vertex
    IN  {[S0 EXCEPT !.p = Identity(g),
                    !.d = [u \in vertices(g) |-> IF u = s THEN 0 ELSE DistanceInf],
                    !.Q = << <<0, s>> >>,
                    !.color = [u \in vertices(g) |-> IF u = s THEN "gray" ELSE "white"],
                    !.st = "run"]}

\* the queue of Dijkstra's search is keyed by the distance map: Q.update
UpdateKey(Q, w, k) == [i \in 1..Len(Q) |-> IF Q[i][2] = w THEN <<k, w>> ELSE Q[i]]

\* one out-edge (v, w) of the vertex Dijkstra's search examines: a white
\* target is relaxed, coloured gray and pushed; a gray one is relaxed and its
\* key updated; a black one is left alone
dijkstra_edge(S, v, w) ==
    LET we == G(S).w[Edge(v, w)]
        r  == relax_target(v, w, we, S.p, S.d)
    IN  IF S.st = "thrown" THEN S
        ELSE IF we < 0 THEN [S EXCEPT !.st = "thrown", !.exc = "negative_edge"]
        ELSE IF S.color[w] = "white"
        THEN [S EXCEPT !.p = r[2], !.d = r[3], !.color[w] = "gray",
                       !.Q = Append(S.Q, <<r[3][w], w>>)]
        ELSE IF S.color[w] = "gray" /\ r[1]
        THEN [S EXCEPT !.p = r[2], !.d = r[3], !.Q = UpdateKey(S.Q, w, r[3][w])]
        ELSE S

RECURSIVE dijkstra_edges(_, _, _)
dijkstra_edges(S, v, ws) ==
    IF ws = << >> THEN S
    ELSE dijkstra_edges(dijkstra_edge(S, v, Head(ws)), v, Tail(ws))

dijkstra_step(S, i) ==
    LET v  == S.Q[i][2]
        S1 == examine_vertex([S EXCEPT !.Q = Remove(S.Q, i), !.examined = @ \cup {v}], v)
    IN  IF S1.st = "thrown" THEN {S1}
        ELSE LET S2 == [dijkstra_edges(S1, v, out_edges(v, G(S1))) EXCEPT !.color[v] = "black"]
             IN  {IF S2.st = "run" /\ S2.Q = << >> THEN [S2 EXCEPT !.st = "exhausted"] ELSE S2}

----------------------------------------------------------------------------
(* computeShortestPath *)

\* static bool const use_astar_hueristic_{false}
use_astar_hueristic_ == FALSE

\* the frame of a call: the arguments and the locals p, d, num_visited_nodes,
\* shortest_path; g0 keeps the graph as the call found it, fn names the
\* function called, given is what the list held at entry, ret the bool
\* find_astar_path returns
Frame(geos, ctls, gref, heuristic, start_vertex, goal_vertex, precompute_heuristic, use_full_collision_check) ==
    [geos |-> geos, ctls |-> ctls, gref |-> gref, heuristic |-> heuristic,
     start_vertex |-> start_vertex, goal_vertex |-> goal_vertex,
     precompute_heuristic |-> precompute_heuristic,
     use_full_collision_check |-> use_full_collision_check,
     p |-> << >>, d |-> << >>, Q |-> << >>, color |-> << >>,
     num_visits |-> 0, examined |-> {}, touched |-> {gref.thread},
     st |-> "call", exc |-> "none",
     oob |-> FALSE, diverged |-> FALSE, shortest_path |-> << >>, g0 |-> EmptyGraph,
     fn |-> "computeShortestPath", given |-> << >>, ret |-> FALSE]

\* the try block up to the first turn of the search's loop
search_init(S) ==
    IF S.precompute_heuristic /\ ~use_astar_hueristic_
    THEN dijkstra_init([S EXCEPT !.g0 = G(S)])
    ELSE astar_init([S EXCEPT !.g0 = G(S)])

\* one turn of the loop of the search the try block runs
search_step(S, i) ==
    IF S.precompute_heuristic /\ ~use_astar_hueristic_
    THEN dijkstra_step(S, i)
    ELSE astar_step(S, i)

\* for (auto vd : vertices(g)) g[vd].g = d[vd]
CopyDistances(g, d) ==
    [g EXCEPT !.vp = [vd \in vertices(g) |-> [g.vp[vd] EXCEPT !.g = d[vd]]]]

MarkOutEdges_removed(g, v) ==
    [g EXCEPT !.E = {e \in g.E : v \notin e},
              !.w = [e \in {x \in g.E : v \notin x} |-> g.w[e]]]

\* weightmap[ed] = opt_->infiniteCost().value() for every out-edge of v
MarkOutEdges(g, v) ==
    [g EXCEPT !.w = [e \in g.E |-> IF v \in e THEN Infinity ELSE g.w[e]]]

\* a walk that never meets a vertex that is its own predecessor
RECURSIVE Walk_endless(_, _, _, _, _, _)
Walk_endless(g, p, v, path, check, fuel) ==
    LET g1 == IF check /\ g.vp[v].blacklisted THEN MarkOutEdges(g, v) ELSE g
        path1 == <<v>> \o path
    IN  IF fuel = 0 THEN [g |-> g1, path |-> path1, diverged |-> TRUE]
        ELSE Walk_endless(g1, p, p[v], path1, check, fuel - 1)

RECURSIVE Walk_marks(_, _, _, _, _, _)
Walk_marks(g, p, v, path, check, fuel) ==
    LET g1 == IF check THEN MarkOutEdges(g, v) ELSE g
        path1 == <<v>> \o path
    IN  IF p[v] = v THEN [g |-> g1, path |-> path1, diverged |-> FALSE]
        ELSE IF fuel = 0 THEN [g |-> g1, path |-> path1, diverged |-> TRUE]
        ELSE Walk_marks(g1, p, p[v], path1, check, fuel - 1)

\* for (v = goal_vertex;; v = p[v]): the backpointer walk.  It has no bound
\* in the code; here it stops, and says so, once it has taken more steps
\* than the graph has vertices
RECURSIVE Walk(_, _, _, _, _, _)
Walk(g, p, v, path, check, fuel) ==
    LET g1 == IF check /\ g.vp[v].blacklisted THEN MarkOutEdges(g, v) ELSE g
        path1 == <<v>> \o path
    IN  IF p[v] = v THEN [g |-> g1, path |-> path1, diverged |-> FALSE]
        ELSE IF fuel = 0 THEN [g |-> g1, path |-> path1, diverged |-> TRUE]
        ELSE Walk(g1, p, p[v], path1, check, fuel - 1)

\* catch (FoundVertex found_goal) { ... return shortest_path; }
CatchFoundVertex(S) ==
    LET g1 == CopyDistances(G(S), S.d)
        r  == Walk(g1, S.p, S.goal_vertex, << >>, S.use_full_collision_check,
                   num_vertices(g1))
    IN  [WithG(S, r.g) EXCEPT !.shortest_path = r.path, !.diverged = r.diverged,
                              !.st = "returned", !.exc = "none"]

\* the end of the call: the search returned (No path found), or an exception
\* is in flight, which the one catch clause takes if it is a FoundVertex
search_end(S) ==
    IF S.st = "exhausted" THEN [S EXCEPT !.st = "returned"]
    ELSE IF S.exc = "FoundVertex" THEN CatchFoundVertex(S)
    ELSE [S EXCEPT !.st = "escaped"]

\* the whole call, from a frame to the set of states it may return in
RECURSIVE search_run(_)
search_run(S) ==
    IF S.st = "run"
    THEN UNION {UNION {search_run(S2) : S2 \in search_step(S, i)} : i \in MinEntries(S.Q)}
    ELSE {search_end(S)}

computeShortestPath(geos, ctls, gref, heuristic, start_vertex, goal_vertex, precompute_heuristic, use_full_collision_check) ==
    UNION {search_run(S) :
           S \in search_init(Frame(geos, ctls, gref, heuristic, start_vertex, goal_vertex,
                                   precompute_heuristic, use_full_collision_check))}

----------------------------------------------------------------------------
(* find_astar_path of the plan refiner: the same tree search over the       *)
(* const graph g, with the list of the caller as the out-parameter.         *)

\* the frame of a call of find_astar_path(g, weightmap, start_vertex,
\* goal_vertex, shortest_path); p and d are value-initialised vectors
FindFrame(g, start_vertex, goal_vertex, given) ==
    [Frame([t \in {0} |-> g], [t \in {0} |-> EmptyGraph], [control |-> FALSE, thread |-> 0],
           [kind |-> "distance", control |-> FALSE, thread_id |-> 0, goal |-> 0],
           start_vertex, goal_vertex, FALSE, FALSE)
       EXCEPT !.fn = "find_astar_path", !.given = given, !.shortest_path = given,
              !.p = [u \in vertices(g) |-> 0], !.d = [u \in vertices(g) |-> 0], !.g0 = g]

\* the try block up to the first turn of the search's loop: return false
\* when there are no clusters, else start the tree search
find_init(S, clusters) ==
    IF clusters = {} THEN {[S EXCEPT !.st = "returned", !.ret = FALSE]}
    ELSE astar_init(S)

\* catch (FoundGoal) { for (v = goal_vertex;; v = p[v]) push_front(v) ...
\* return true; }
CatchFoundGoal(S) ==
    LET r == Walk(G(S), S.p, S.goal_vertex, S.shortest_path, FALSE, num_vertices(G(S)))
    IN  [S EXCEPT !.shortest_path = r.path, !.diverged = r.diverged,
                  !.st = "returned", !.exc = "none", !.ret = TRUE]

\* the end of the call: the search returned (return false), or an exception
\* is in flight, which the one catch clause takes if it is a FoundGoal
find_end(S) ==
    IF S.st = "exhausted" THEN [S EXCEPT !.st = "returned", !.ret = FALSE]
    ELSE IF S.exc = "FoundGoal" THEN CatchFoundGoal(S)
    ELSE [S EXCEPT !.st = "escaped"]

----------------------------------------------------------------------------
(* The search specification: computeShortestPath, call after call, on the   *)
(* geometric graph of thread 0, drawn from every graph of NV vertices with  *)
(* edge weights in 1..MaxCost and every validity oracle.  Vertex i holds    *)
(* state i - 1.                                                             *)

graphVars == <<g_geometrics_, g_controls_>>

searchVars == <<srch, passes>>

bestVars == <<bestGeometricCost_, bestGeometricPath_, bestControlCost_, bestControlPath_>>

refinerVars == <<g_, supervoxel_clusters_>>

pluginVars ==
    <<plugin, is_enabled_, is_octomap_ready_, octomap_msg_, fcl_octree_,
      fcl_tree_from_octomap_once_, octomap_mutex_, callback, delivered, validity, plan,
      start_state, result_state, propagations>>

problemVars ==
    <<Valid, start_vertex_, goal_vertex_, max_dist_between_vertices_, refinerVars, pluginVars,
      call>>

\* a null fcl_octree_
NoTree == [null |-> TRUE, occupied |-> {}]

\* the message initialize() makes: std::make_shared<octomap_msgs::msg::Octomap>()
EmptyOctomap == [id |-> 0, occupied |-> {}]

\* a compound state of the control-space plugin: SE2 pose and velocity
CompoundState(x, y, yaw, v) == [x |-> x, y |-> y, yaw |-> yaw, v |-> v]

NoCall == [called |-> FALSE]

\* no planner plugin: the searches and the AITStarKin driver run without one
NoPlugin ==
    /\ plugin = "none"
    /\ is_enabled_ = FALSE
    /\ is_octomap_ready_ = FALSE
    /\ octomap_msg_ = EmptyOctomap
    /\ fcl_octree_ = NoTree
    /\ fcl_tree_from_octomap_once_ = FALSE
    /\ octomap_mutex_ = FALSE
    /\ callback = [pc |-> "idle", msg |-> EmptyOctomap]
    /\ delivered = 0
    /\ validity = NoCall
    /\ plan = NoCall
    /\ start_state = CompoundState(0, 0, 0, 0)
    /\ result_state = CompoundState(0, 0, 0, 0)
    /\ propagations = << >>
    /\ call = NoCall

driverVars == <<geometrics_nn_, controls_nn_, bestVars, mutex, status, ptc, pc, rounds,
                samples, found, touched>>

vars == <<problemVars, graphVars, searchVars, driverVars>>

NoThread == 0 - 1

AllEdges == {Edge(u, v) : u, v \in 1..NV} \ {{u} : u \in 1..NV}

DrawnGraph(E, w) ==
    [vp |-> [i \in 1..NV |-> VertexProperty(i - 1, 0, 0, i)], E |-> E, w |-> w]

\* a search state without the graphs, which the variables hold
Stored(S) == [S EXCEPT !.geos = << >>, !.ctls = << >>]

Loaded == [srch EXCEPT !.geos = g_geometrics_, !.ctls = g_controls_]

IdleFrame ==
    [Stored(Frame(<< >>, << >>, [control |-> FALSE, thread |-> 0],
                  [kind |-> "generic", control |-> FALSE, thread_id |-> 0, goal |-> 0],
                  1, 1, FALSE, FALSE)) EXCEPT !.st = "idle"]

InitSearch ==
    /\ Valid \in SUBSET (0..(NV - 1))
    /\ \E E \in SUBSET AllEdges : \E w \in [E -> 1..MaxCost] :
          /\ g_geometrics_ = [t \in Threads |-> IF t = 0 THEN DrawnGraph(E, w) ELSE EmptyGraph]
          /\ g_ = DrawnGraph(E, w)
    /\ supervoxel_clusters_ \in {{}, 1..NV}
    /\ NoPlugin
    /\ g_controls_ = [t \in Threads |-> EmptyGraph]
    /\ srch = IdleFrame
    /\ passes = 0
    /\ geometrics_nn_ = [t \in Threads |-> {}]
    /\ controls_nn_ = [t \in Threads |-> {}]
    /\ start_vertex_ = VertexProperty(0, 0, 0, 1)
    /\ goal_vertex_ = VertexProperty(1, 0, 0, 2)
    /\ max_dist_between_vertices_ = 0
    /\ bestGeometricCost_ = Infinity
    /\ bestGeometricPath_ = << >>
    /\ bestControlCost_ = Infinity
    /\ bestControlPath_ = << >>
    /\ mutex = NoThread
    /\ status = "Idle"
    /\ ptc = FALSE
    /\ pc = [t \in Threads |-> "idle"]
    /\ rounds = 0
    /\ samples = [t \in Threads |-> << >>]
    /\ found = [t \in Threads |-> << >>]
    /\ touched = {}

Store(S) ==
    /\ srch' = Stored(S)
    /\ g_geometrics_' = S.geos
    /\ g_controls_' = S.ctls

\* the refiner's search state without the graph, which g_ holds
LoadedFind == [srch EXCEPT !.geos = [t \in {0} |-> g_], !.ctls = [t \in {0} |-> EmptyGraph]]

\* what the list of find_astar_path's caller may hold at entry
GivenLists == {<< >>, <<NV>>}

\* a caller enters find_astar_path with the refiner's graph
CallFindAstarPath ==
    /\ srch.st \in {"idle", "returned"}
    /\ passes < MaxPasses
    /\ \E s, t \in 1..2, given \in GivenLists :
          \E S \in find_init(FindFrame(g_, s, t, given), supervoxel_clusters_) :
             srch' = Stored(S)
    /\ passes' = passes + 1
    /\ UNCHANGED <<problemVars, graphVars, driverVars>>

\* one turn of the loop of the search find_astar_path runs
FindAstarPathStep ==
    /\ srch.st = "run"
    /\ srch.fn = "find_astar_path"
    /\ \E i \in MinEntries(srch.Q) : \E S \in astar_step(LoadedFind, i) : srch' = Stored(S)
    /\ UNCHANGED <<problemVars, graphVars, passes, driverVars>>

\* find_astar_path ends: return false, or the catch clause
FindAstarPathEnd ==
    /\ srch.st \in {"exhausted", "thrown"}
    /\ srch.fn = "find_astar_path"
    /\ srch' = Stored(find_end(LoadedFind))
    /\ UNCHANGED <<problemVars, graphVars, passes, driverVars>>

\* a caller enters computeShortestPath: the search is initialised
CallSearch ==
    /\ srch.st \in {"idle", "returned"}
    /\ passes < MaxPasses
    /\ \E s, t \in 1..2, pre, chk \in BOOLEAN, kind \in {"generic", "precomputed"} :
          /\ pre => kind = "generic"
          /\ \E S \in search_init(
                   Frame(g_geometrics_, g_controls_, [control |-> FALSE, thread |-> 0],
                         [kind |-> kind, control |-> FALSE, thread_id |-> 0,
                          goal |-> g_geometrics_[0].vp[t].state],
                         s, t, pre, chk)) :
                Store(S)
    /\ passes' = passes + 1
    /\ UNCHANGED <<problemVars, driverVars>>

\* one turn of the search's loop
SearchStep ==
    /\ srch.st = "run"
    /\ srch.fn = "computeShortestPath"
    /\ \E i \in MinEntries(srch.Q) : \E S \in search_step(Loaded, i) : Store(S)
    /\ UNCHANGED <<problemVars, passes, driverVars>>

\* the call ends: by the normal return, by the catch clause, or by an
\* exception leaving it
SearchEnd ==
    /\ srch.st \in {"exhausted", "thrown"}
    /\ srch.fn = "computeShortestPath"
    /\ Store(search_end(Loaded))
    /\ UNCHANGED <<problemVars, passes, driverVars>>

NextSearch ==
    \/ CallSearch \/ SearchStep \/ SearchEnd
    \/ CallFindAstarPath \/ FindAstarPathStep \/ FindAstarPathEnd

SpecSearch == InitSearch /\ [][NextSearch]_vars

----------------------------------------------------------------------------
(* The graph builders.  AITStarKin.cpp is not among the sources: the        *)
(* builders and the driver below follow the design description (sections    *)
(* 4.1 to 4.6 and 5) and the declarations and comments of AITStarKin.hpp.   *)

\* longest control segment, in propagation steps
MaxDuration == 2
\* samples per batch (batch_size_)
BatchSize == 1
\* rounds the time budget allows, over all workers
MaxRounds == 2

\* double min_dist_between_vertices_{0.1}
min_dist_between_vertices_ == 1
\* int max_neighbors_{10}
max_neighbors_ == 10
\* siC_->getPropagationStepSize()
PropagationStepSize == 1

\* a control pointer: 0 is nullptr, 1 and 2 are sampled controls (drive
\* backwards, drive forwards), 3 is a control allocated by allocControl
Controls == {1, 2}

ControlValue(c) == IF c = 1 THEN 0 - 1 ELSE IF c = 2 THEN 1 ELSE 0

\* the forward-dynamics propagator: the state after driving control c for
\* `duration` steps
statePropagator(state, c, duration) == state + ControlValue(c) * duration

\* a graph with its nearest-neighbour index
Indexed(g, nn) == [g |-> g, nn |-> nn]

\* NearestNeighbors::nearestK: the k members of the index nearest to a state
nearestK(gn, nn, state, k) ==
    LET dist(v) == distanceFunction(gn.g.vp[v].state, state)
        nearer(u, v) == dist(u) < dist(v) \/ (dist(u) = dist(v) /\ u < v)
    IN  {v \in nn : Cardinality({u \in nn : nearer(u, v)}) < k}

\* boost::add_vertex and NearestNeighbors::add
AddVertex(gn, state, control, control_duration) ==
    LET id == Len(gn.g.vp) + 1
    IN  [g |-> [gn.g EXCEPT !.vp = Append(@, VertexProperty(state, control, control_duration, id))],
         nn |-> gn.nn \cup {id}]

\* boost::add_edge from v to every vertex of nbs, weighted by the motion cost
\* between the states; setS keeps an edge that is already there
AddEdges(gn, v, nbs) ==
    LET new == {Edge(v, u) : u \in nbs \ {v}} \ gn.g.E
        cost(e) == LET a == CHOOSE x \in e : TRUE
                       b == CHOOSE y \in e : y # a
                   IN  motionCost(gn.g.vp[a].state, gn.g.vp[b].state)
    IN  [gn EXCEPT !.g.E = @ \cup new,
                   !.g.w = [e \in gn.g.E \cup new |->
                              IF e \in gn.g.E THEN gn.g.w[e] ELSE cost(e)]]

expandGeometricSample_keep(gn, sample) ==
    LET nbh == nearestK(gn, gn.nn, sample, max_neighbors_)
        dist(v) == distanceFunction(gn.g.vp[v].state, sample)
    IN  AddEdges(AddVertex(gn, sample, 0, 0), Len(gn.g.vp) + 1,
                 {nb \in nbh : /\ dist(nb) >= min_dist_between_vertices_
                               /\ dist(nb) <= max_dist_between_vertices_})

\* expandGeometricGraph, one sample: a sample nearer than
\* min_dist_between_vertices_ to a neighbour is a near-duplicate and is
\* dropped; an accepted one becomes a vertex, joined to each neighbour that is
\* not further than max_dist_between_vertices_
expandGeometricSample(gn, sample) ==
    LET nbh == nearestK(gn, gn.nn, sample, max_neighbors_)
        dist(v) == distanceFunction(gn.g.vp[v].state, sample)
    IN  IF \E nb \in nbh : dist(nb) < min_dist_between_vertices_
        THEN gn
        ELSE AddEdges(AddVertex(gn, sample, 0, 0), Len(gn.g.vp) + 1,
                      {nb \in nbh : dist(nb) <= max_dist_between_vertices_})

RECURSIVE expandGeometricGraph(_, _)
expandGeometricGraph(batch, gn) ==
    IF batch = << >> THEN gn
    ELSE expandGeometricGraph(Tail(batch), expandGeometricSample(gn, Head(batch)))

ensureGoalVertexConnectivity_thresholds(target, gn) ==
    AddEdges(gn, target,
             {nb \in nearestK(gn, gn.nn \ {target}, gn.g.vp[target].state, max_neighbors_) :
                 /\ distanceFunction(gn.g.vp[nb].state, gn.g.vp[target].state)
                       >= min_dist_between_vertices_
                 /\ distanceFunction(gn.g.vp[nb].state, gn.g.vp[target].state)
                       <= max_dist_between_vertices_})

\* ensureGoalVertexConnectivity: join the target vertex to its nearest
\* neighbours, whatever their distance
ensureGoalVertexConnectivity(target, gn) ==
    AddEdges(gn, target,
             nearestK(gn, gn.nn \ {target}, gn.g.vp[target].state, max_neighbors_))

\* whether every state of the segment is inside the bounds and valid
SegmentValid(state, c, duration) ==
    \A j \in 1..duration :
        /\ statePropagator(state, c, j) \in States
        /\ isValid(statePropagator(state, c, j))

\* expandControlGraph, one candidate: from the vertex nearest to the sample
\* drive control c for `duration` steps; keep the end state as a vertex with
\* the edge from its source only if the whole segment is valid, and join it
\* to the target vertex when it has arrived at the target's state
expandControlCandidate(gn, sample, c, duration, target) ==
    LET src == CHOOSE v \in nearestK(gn, gn.nn, sample, 1) : TRUE
        from == gn.g.vp[src].state
        end == statePropagator(from, c, duration)
        v == Len(gn.g.vp) + 1
        arrived == distanceFunction(end, gn.g.vp[target].state) < min_dist_between_vertices_
    IN  IF ~SegmentValid(from, c, duration)
        THEN gn
        ELSE AddEdges(AddVertex(gn, end, c, duration), v,
                      {src} \cup (IF arrived THEN {target} ELSE {}))

\* expandControlGraph: the candidates of a batch, in order; cands[j] is the
\* control and the duration drawn for the j-th sample
RECURSIVE expandControlGraph(_, _, _, _)
expandControlGraph(batch, cands, target, gn) ==
    IF batch = << >> THEN gn
    ELSE expandControlGraph(Tail(batch), Tail(cands), target,
                            expandControlCandidate(gn, Head(batch), Head(cands)[1],
                                                   Head(cands)[2], target))

----------------------------------------------------------------------------
(* The path assembler *)

\* an assembler that appends every vertex as a state alone
RECURSIVE populateOmplPathfromVertexPath_states(_, _, _, _)
populateOmplPathfromVertexPath_states(vertex_path, g, path, index) ==
    IF vertex_path = << >> THEN [g |-> g, path |-> path]
    ELSE LET i  == Head(vertex_path)
             g1 == IF g.vp[i].control = 0 THEN [g EXCEPT !.vp[i].control = 3] ELSE g
             wp == [state |-> g1.vp[i].state, control |-> 0, duration |-> 0]
         IN  populateOmplPathfromVertexPath_states(Tail(vertex_path), g1, Append(path, wp),
                                                   index + 1)

\* populateOmplPathfromVertexPath: the graph with the controls it allocates,
\* and the path, one waypoint per vertex
RECURSIVE populateOmplPathfromVertexPath(_, _, _, _)
populateOmplPathfromVertexPath(vertex_path, g, path, index) ==
    IF vertex_path = << >> THEN [g |-> g, path |-> path]
    ELSE LET i  == Head(vertex_path)
             g1 == IF g.vp[i].control = 0 THEN [g EXCEPT !.vp[i].control = 3] ELSE g
             wp == IF index = 0
                   THEN [state |-> g1.vp[i].state, control |-> 0, duration |-> 0]
                   ELSE [state |-> g1.vp[i].state, control |-> g1.vp[i].control,
                         duration |-> g1.vp[i].control_duration * PropagationStepSize]
         IN  populateOmplPathfromVertexPath(Tail(vertex_path), g1, Append(path, wp), index + 1)

\* computePathCost: the motion costs between consecutive states, summed
RECURSIVE computePathCost(_)
computePathCost(path) ==
    IF Len(path) <= 1 THEN 0
    ELSE Plus(motionCost(path[1].state, path[2].state), computePathCost(Tail(path)))

----------------------------------------------------------------------------
(* The planner driver: solve.  Setup, then NumThreads workers, each looping *)
(* over sample, expand, search and merge on its own pair of graphs, until   *)
(* the termination condition trips; then the status is returned.            *)

NoPaths == [geometric |-> << >>, geometricCost |-> Infinity,
            control |-> << >>, controlCost |-> Infinity]

\* the graph and index Setup gives every thread: the start and the goal
SetupGraph == Indexed([EmptyGraph EXCEPT !.vp = <<start_vertex_, goal_vertex_>>], {1, 2})

\* the heuristic objects of the three searches of a round
PrecomputeHeuristic(t) ==
    [kind |-> "generic", control |-> FALSE, thread_id |-> t, goal |-> start_vertex_.state]

GeometricHeuristic(t) ==
    [kind |-> "precomputed", control |-> FALSE, thread_id |-> t, goal |-> goal_vertex_.state]

ControlHeuristic(t) ==
    [kind |-> "generic", control |-> TRUE, thread_id |-> t, goal |-> goal_vertex_.state]

\* the path a search returned, assembled and costed; the graph with the
\* assembler's writes
Assembled(vertex_path, g) ==
    LET r == populateOmplPathfromVertexPath(vertex_path, g, << >>, 0)
    IN  [g |-> r.g, path |-> r.path,
         cost |-> IF vertex_path = << >> THEN Infinity ELSE computePathCost(r.path)]

\* the update of one best-path record: replaced by a path of strictly lower
\* cost, kept otherwise
Improves_or_equal(cost, best) == cost <= best

Improves(cost, best) == cost < best

UpdateBest(cost, path, bestCost, bestPath) ==
    IF path # << >> /\ Improves(cost, bestCost)
    THEN [cost |-> cost, path |-> path]
    ELSE [cost |-> bestCost, path |-> bestPath]

SolveStatus_solved == "Solved"

\* the status solve returns
SolveStatus == IF bestGeometricPath_ # << >> \/ bestControlPath_ # << >>
               THEN "Solved" ELSE "NoSolution"

Init ==
    /\ Valid \in SUBSET States
    /\ start_vertex_ = VertexProperty(0, 0, 0, 1)
    /\ \E g \in States : goal_vertex_ = VertexProperty(g, 0, 0, 2)
    /\ max_dist_between_vertices_ \in {0, MaxPos}
    /\ g_ = EmptyGraph
    /\ supervoxel_clusters_ = {}
    /\ NoPlugin
    /\ g_geometrics_ = [t \in Threads |-> EmptyGraph]
    /\ g_controls_ = [t \in Threads |-> EmptyGraph]
    /\ geometrics_nn_ = [t \in Threads |-> {}]
    /\ controls_nn_ = [t \in Threads |-> {}]
    /\ srch = IdleFrame
    /\ passes = 0
    /\ bestGeometricCost_ = Infinity
    /\ bestGeometricPath_ = << >>
    /\ bestControlCost_ = Infinity
    /\ bestControlPath_ = << >>
    /\ mutex = NoThread
    /\ status = "Idle"
    /\ ptc = FALSE
    /\ pc = [t \in Threads |-> "idle"]
    /\ rounds = 0
    /\ samples = [t \in Threads |-> << >>]
    /\ found = [t \in Threads |-> NoPaths]
    /\ touched = {}

\* Setup: per-thread graphs and indices with the start and the goal, best
\* costs at infinity, the workers started
Setup ==
    /\ status = "Idle"
    /\ g_geometrics_' = [t \in Threads |-> SetupGraph.g]
    /\ g_controls_' = [t \in Threads |-> SetupGraph.g]
    /\ geometrics_nn_' = [t \in Threads |-> SetupGraph.nn]
    /\ controls_nn_' = [t \in Threads |-> SetupGraph.nn]
    /\ bestGeometricCost_' = Infinity
    /\ bestControlCost_' = Infinity
    /\ bestGeometricPath_' = << >>
    /\ bestControlPath_' = << >>
    /\ status' = "Running"
    /\ pc' = [t \in Threads |-> "loop"]
    /\ UNCHANGED <<problemVars, searchVars, mutex, ptc, rounds, samples, found, touched>>

\* the termination condition, polled between rounds, has not tripped: the
\* worker starts a round and takes the mutex to read the best cost
BeginRound(t) ==
    /\ pc[t] = "loop"
    /\ ~ptc
    /\ rounds < MaxRounds
    /\ mutex = NoThread
    /\ mutex' = t
    /\ rounds' = rounds + 1
    /\ pc' = [pc EXCEPT ![t] = "sample"]
    /\ UNCHANGED <<problemVars, graphVars, searchVars, geometrics_nn_, controls_nn_,
                   bestVars, status, ptc, samples, found, touched>>

\* generateBatchofSamples: the best cost read under the mutex, a batch drawn
Sample(t) ==
    /\ pc[t] = "sample"
    /\ mutex = t
    /\ \E batch \in [1..BatchSize -> States] : samples' = [samples EXCEPT ![t] = batch]
    /\ mutex' = NoThread
    /\ pc' = [pc EXCEPT ![t] = "expand"]
    /\ UNCHANGED <<problemVars, graphVars, searchVars, geometrics_nn_, controls_nn_,
                   bestVars, status, ptc, rounds, found, touched>>

\* the rest of a round, all of it on the worker's own graphs: both graphs
\* expanded with the batch, the goal's connectivity ensured, the heuristic
\* precomputed from the goal, the collision-checked search run on each graph,
\* the paths found assembled and costed
Expand(t) ==
    /\ pc[t] = "expand"
    /\ \E cands \in [1..Len(samples[t]) -> Controls \X (1..MaxDuration)] :
          LET geo  == ensureGoalVertexConnectivity(goal_vertex_.id,
                         expandGeometricGraph(samples[t],
                            Indexed(g_geometrics_[t], geometrics_nn_[t])))
              ctl  == expandControlGraph(samples[t], cands, goal_vertex_.id,
                         Indexed(g_controls_[t], controls_nn_[t]))
              geos == [g_geometrics_ EXCEPT ![t] = geo.g]
              ctls == [g_controls_ EXCEPT ![t] = ctl.g]
              own  == [control |-> FALSE, thread |-> t]
              ownC == [control |-> TRUE, thread |-> t]
          IN  \E S1 \in computeShortestPath(geos, ctls, own, PrecomputeHeuristic(t),
                                            goal_vertex_.id, start_vertex_.id, TRUE, FALSE) :
              \E S2 \in computeShortestPath(S1.geos, S1.ctls, own, GeometricHeuristic(t),
                                            start_vertex_.id, goal_vertex_.id, FALSE, TRUE) :
              \E S3 \in computeShortestPath(S2.geos, S2.ctls, ownC, ControlHeuristic(t),
                                            start_vertex_.id, goal_vertex_.id, FALSE, TRUE) :
                 LET ag == Assembled(S2.shortest_path, S3.geos[t])
                     ac == Assembled(S3.shortest_path, S3.ctls[t])
                 IN  /\ g_geometrics_' = [S3.geos EXCEPT ![t] = ag.g]
                     /\ g_controls_' = [S3.ctls EXCEPT ![t] = ac.g]
                     /\ geometrics_nn_' = [geometrics_nn_ EXCEPT ![t] = geo.nn]
                     /\ controls_nn_' = [controls_nn_ EXCEPT ![t] = ctl.nn]
                     /\ found' = [found EXCEPT ![t] =
                                    [geometric |-> ag.path, geometricCost |-> ag.cost,
                                     control |-> ac.path, controlCost |-> ac.cost]]
                     /\ touched' = touched \cup
                           {<<t, i>> : i \in {t} \cup S1.touched \cup S2.touched \cup S3.touched}
                     /\ pc' = [pc EXCEPT ![t] =
                                 IF ag.path # << >> \/ ac.path # << >> THEN "lock" ELSE "loop"]
    /\ samples' = [samples EXCEPT ![t] = << >>]
    /\ UNCHANGED <<problemVars, searchVars, bestVars, mutex, status, ptc, rounds>>

\* a worker with a path to merge takes the mutex
Lock(t) ==
    /\ pc[t] = "lock"
    /\ mutex = NoThread
    /\ mutex' = t
    /\ pc' = [pc EXCEPT ![t] = "update"]
    /\ UNCHANGED <<problemVars, graphVars, searchVars, geometrics_nn_, controls_nn_,
                   bestVars, status, ptc, rounds, samples, found, touched>>

\* under the mutex, each record is replaced if the worker's path improves on
\* it; the mutex is released
Update(t) ==
    /\ pc[t] = "update"
    /\ mutex = t
    /\ LET bg == UpdateBest(found[t].geometricCost, found[t].geometric,
                            bestGeometricCost_, bestGeometricPath_)
           bc == UpdateBest(found[t].controlCost, found[t].control,
                            bestControlCost_, bestControlPath_)
       IN  /\ bestGeometricCost_' = bg.cost
           /\ bestGeometricPath_' = bg.path
           /\ bestControlCost_' = bc.cost
           /\ bestControlPath_' = bc.path
    /\ mutex' = NoThread
    /\ pc' = [pc EXCEPT ![t] = "loop"]
    /\ UNCHANGED <<problemVars, graphVars, searchVars, geometrics_nn_, controls_nn_,
                   status, ptc, rounds, samples, found, touched>>

\* the termination condition trips: the time budget is spent
Trip ==
    /\ status = "Running"
    /\ ~ptc
    /\ ptc' = TRUE
    /\ UNCHANGED <<problemVars, graphVars, searchVars, geometrics_nn_, controls_nn_,
                   bestVars, mutex, status, pc, rounds, samples, found, touched>>

\* a worker polls the tripped condition between two rounds and leaves its loop
ExitLoop(t) ==
    /\ pc[t] = "loop"
    /\ ptc
    /\ pc' = [pc EXCEPT ![t] = "exit"]
    /\ UNCHANGED <<problemVars, graphVars, searchVars, geometrics_nn_, controls_nn_,
                   bestVars, mutex, status, ptc, rounds, samples, found, touched>>

\* the workers joined, solve returns its status
Join ==
    /\ status = "Running"
    /\ \A t \in Threads : pc[t] = "exit"
    /\ status' = SolveStatus
    /\ UNCHANGED <<problemVars, graphVars, searchVars, geometrics_nn_, controls_nn_,
                   bestVars, mutex, ptc, pc, rounds, samples, found, touched>>

Next ==
    \/ Setup
    \/ \E t \in Threads : BeginRound(t)
    \/ \E t \in Threads : Sample(t)
    \/ \E t \in Threads : Expand(t)
    \/ \E t \in Threads : Lock(t)
    \/ \E t \in Threads : Update(t)
    \/ Trip
    \/ \E t \in Threads : ExitLoop(t)
    \/ Join

Spec == Init /\ [][Next]_vars

----------------------------------------------------------------------------
(* The planner plugins: SE2PlannerControlSpace and SE3Planner.  Positions   *)
(* are cells of a line, headings are quarter turns, the octomap is the set  *)
(* of its occupied cells.                                                   *)

Plugins == {"SE2PlannerControlSpace", "SE3Planner"}

\* octomap messages the subscription may deliver
MaxMessages == 2
\* calls of propagate the model follows
MaxPropagations == 2
\* longest solution path a planner hands back, in states
MaxPoses == 2

\* the last cell of the line the octomap covers
MaxCell == 1

Cells == 0..MaxCell

\* ompl::base::PlannerStatus::StatusType
PlannerStatus ==
    {"UNKNOWN", "INVALID_START", "INVALID_GOAL", "UNRECOGNIZED_GOAL_TYPE", "TIMEOUT",
     "APPROXIMATE_SOLUTION", "EXACT_SOLUTION", "CRASH", "ABORT"}

\* ompl::base::PlannerStatus::operator bool, the test of if (solved)
Solved(solved) == solved \in {"APPROXIMATE_SOLUTION", "EXACT_SOLUTION"}

createPlan_unsolved(enabled, solved, path) ==
    IF ~enabled
    THEN [called |-> TRUE, planner |-> FALSE, solved |-> "UNKNOWN", plan_poses |-> << >>]
    ELSE [called |-> TRUE, planner |-> TRUE, solved |-> solved, plan_poses |-> path]

\* createPlan of both plugins: nothing when disabled; else a planner is
\* made and run, and the poses of its solution path are returned if (solved)
createPlan(enabled, solved, path) ==
    IF ~enabled
    THEN [called |-> TRUE, planner |-> FALSE, solved |-> "UNKNOWN", plan_poses |-> << >>]
    ELSE [called |-> TRUE, planner |-> TRUE, solved |-> solved,
          plan_poses |-> IF Solved(solved) THEN path ELSE << >>]

\* fcl::collide of the robot body placed at a cell with the octomap's tree
isCollision(cell, tree) == cell \in tree.occupied

\* octomap_msgs::readTree / fullMsgToMap and fcl::OcTree: the tree of a message
TreeOf(msg) == [null |-> FALSE, occupied |-> msg.occupied]

\* an isStateValid that does not look at is_octomap_ready_
isStateValid_SE2_unready(cell, ready, msg, tree, once) ==
    LET t == IF once THEN tree ELSE TreeOf(msg)
    IN  {[ret |-> ~isCollision(cell, t), collision |-> isCollision(cell, t),
          tested |-> TRUE, crashed |-> FALSE, tree |-> t, once |-> TRUE]}

\* SE2PlannerControlSpace::isStateValid: the outcomes [ret, collision, tree,
\* once], tree and once being the members after the call
isStateValid_SE2(cell, ready, msg, tree, once) ==
    IF ready
    THEN LET t == IF once THEN tree ELSE TreeOf(msg)
         IN  {[ret |-> ~isCollision(cell, t), collision |-> isCollision(cell, t),
               tested |-> TRUE, crashed |-> FALSE, tree |-> t, once |-> TRUE]}
    ELSE {[ret |-> FALSE, collision |-> FALSE, tested |-> FALSE, crashed |-> FALSE,
           tree |-> tree, once |-> once]}

\* SE3Planner::isStateValid: the collision test is run on the tree the
\* callback built and its result dropped (return true)
isStateValid_SE3(cell, ready, msg, tree, once) ==
    IF ready
    THEN {[ret |-> TRUE, collision |-> isCollision(cell, tree), tested |-> TRUE,
           crashed |-> FALSE, tree |-> tree, once |-> once]}
    ELSE {[ret |-> FALSE, collision |-> FALSE, tested |-> FALSE, crashed |-> FALSE,
           tree |-> tree, once |-> once]}

isStateValidOf(p, cell, ready, msg, tree, once) ==
    IF p = "SE3Planner" THEN isStateValid_SE3(cell, ready, msg, tree, once)
    ELSE isStateValid_SE2(cell, ready, msg, tree, once)

\* cos and sin of a heading in quarter turns
Cos(q) == LET r == q % 4 IN IF r = 0 THEN 1 ELSE IF r = 2 THEN 0 - 1 ELSE 0

Sin(q) == LET r == q % 4 IN IF r = 1 THEN 1 ELSE IF r = 3 THEN 0 - 1 ELSE 0

\* lengthInv * tan(steer_angle), in quarter turns per cell
Tan(steer) == steer

\* SE2PlannerControlSpace::propagate(start, control, duration, result): the
\* two state objects after the call
propagate(start, control, duration, result) ==
    LET acc         == control[1]
        steer_angle == control[2]
        velocity    == start.v
        x_n         == start.x + velocity * duration * Cos(start.yaw)
        y_n         == start.y + velocity * duration * Sin(start.yaw)
        velocity_n  == velocity + acc * duration
        omega       == velocity * Tan(steer_angle)
        theta_n     == start.yaw + omega * duration
    IN  [start  |-> [start EXCEPT !.v = velocity_n],
         result |-> [result EXCEPT !.x = x_n, !.y = y_n, !.yaw = theta_n]]

\* controls within control_bounds: <<acceleration, steering angle>>
PlanControls == {<<1, 0>>, <<0, 1>>}

\* the members left alone by every plugin operation
plannerVars ==
    <<Valid, start_vertex_, goal_vertex_, max_dist_between_vertices_, refinerVars, call,
      graphVars, searchVars, driverVars>>

\* after the constructor and initialize(): is_octomap_ready_ is false, the
\* message is an empty one, is_enabled_ is what the parameter says
InitPlugins ==
    /\ plugin \in Plugins
    /\ is_enabled_ \in BOOLEAN
    /\ is_octomap_ready_ = FALSE
    /\ octomap_msg_ = EmptyOctomap
    /\ fcl_octree_ = NoTree
    /\ fcl_tree_from_octomap_once_ = FALSE
    /\ octomap_mutex_ = FALSE
    /\ callback = [pc |-> "idle", msg |-> EmptyOctomap]
    /\ delivered = 0
    /\ validity = NoCall
    /\ plan = NoCall
    /\ \E v \in 0..1 : start_state = CompoundState(0, 0, 0, v)
    /\ result_state = CompoundState(0, 0, 0, 0)
    /\ propagations = << >>
    /\ call = NoCall
    /\ Valid = {}
    /\ start_vertex_ = VertexProperty(0, 0, 0, 1)
    /\ goal_vertex_ = VertexProperty(1, 0, 0, 2)
    /\ max_dist_between_vertices_ = 0
    /\ g_ = EmptyGraph
    /\ supervoxel_clusters_ = {}
    /\ g_geometrics_ = [t \in Threads |-> EmptyGraph]
    /\ g_controls_ = [t \in Threads |-> EmptyGraph]
    /\ geometrics_nn_ = [t \in Threads |-> {}]
    /\ controls_nn_ = [t \in Threads |-> {}]
    /\ srch = IdleFrame
    /\ passes = 0
    /\ bestGeometricCost_ = Infinity
    /\ bestGeometricPath_ = << >>
    /\ bestControlCost_ = Infinity
    /\ bestControlPath_ = << >>
    /\ mutex = NoThread
    /\ status = "Idle"
    /\ ptc = FALSE
    /\ pc = [t \in Threads |-> "idle"]
    /\ rounds = 0
    /\ samples = [t \in Threads |-> << >>]
    /\ found = [t \in Threads |-> NoPaths]
    /\ touched = {}

\* octomapCallback, entry: the subscription delivers msg and the callback
\* takes octomap_mutex_
OctomapLock ==
    /\ callback.pc = "idle"
    /\ ~octomap_mutex_
    /\ delivered < MaxMessages
    /\ \E o \in SUBSET Cells :
          callback' = [pc |-> "locked", msg |-> [id |-> delivered + 1, occupied |-> o]]
    /\ delivered' = delivered + 1
    /\ octomap_mutex_' = TRUE
    /\ UNCHANGED <<plugin, is_enabled_, is_octomap_ready_, octomap_msg_, fcl_octree_,
                   fcl_tree_from_octomap_once_, validity, plan, start_state, result_state,
                   propagations, plannerVars>>

\* a callback that does not test is_octomap_ready_
OctomapFirst_unguarded ==
    /\ callback.pc = "locked"
    /\ IF plugin = "SE3Planner"
       THEN /\ octomap_msg_' = callback.msg
            /\ fcl_octree_' = TreeOf(callback.msg)
            /\ UNCHANGED is_octomap_ready_
       ELSE /\ is_octomap_ready_' = TRUE
            /\ UNCHANGED <<octomap_msg_, fcl_octree_>>
    /\ callback' = [callback EXCEPT !.pc = "first"]
    /\ UNCHANGED <<plugin, is_enabled_, fcl_tree_from_octomap_once_, octomap_mutex_, delivered,
                   validity, plan, start_state, result_state, propagations, plannerVars>>

\* octomapCallback, first write under if (!is_octomap_ready_):
\* SE2PlannerControlSpace sets the flag, SE3Planner stores the message and
\* builds the tree
OctomapFirst ==
    /\ callback.pc = "locked"
    /\ ~is_octomap_ready_
    /\ IF plugin = "SE3Planner"
       THEN /\ octomap_msg_' = callback.msg
            /\ fcl_octree_' = TreeOf(callback.msg)
            /\ UNCHANGED is_octomap_ready_
       ELSE /\ is_octomap_ready_' = TRUE
            /\ UNCHANGED <<octomap_msg_, fcl_octree_>>
    /\ callback' = [callback EXCEPT !.pc = "first"]
    /\ UNCHANGED <<plugin, is_enabled_, fcl_tree_from_octomap_once_, octomap_mutex_, delivered,
                   validity, plan, start_state, result_state, propagations, plannerVars>>

\* octomapCallback, second write: SE2PlannerControlSpace stores the
\* message, SE3Planner sets the flag
OctomapSecond ==
    /\ callback.pc = "first"
    /\ IF plugin = "SE3Planner"
       THEN /\ is_octomap_ready_' = TRUE
            /\ UNCHANGED octomap_msg_
       ELSE /\ octomap_msg_' = callback.msg
            /\ UNCHANGED is_octomap_ready_
    /\ callback' = [callback EXCEPT !.pc = "done"]
    /\ UNCHANGED <<plugin, is_enabled_, fcl_octree_, fcl_tree_from_octomap_once_,
                   octomap_mutex_, delivered, validity, plan, start_state, result_state,
                   propagations, plannerVars>>

\* octomapCallback returns, with nothing done if the flag was already set;
\* the lock_guard releases octomap_mutex_
OctomapUnlock ==
    /\ \/ callback.pc = "done"
       \/ callback.pc = "locked" /\ is_octomap_ready_
    /\ callback' = [callback EXCEPT !.pc = "idle"]
    /\ octomap_mutex_' = FALSE
    /\ UNCHANGED <<plugin, is_enabled_, is_octomap_ready_, octomap_msg_, fcl_octree_,
                   fcl_tree_from_octomap_once_, delivered, validity, plan, start_state,
                   result_state, propagations, plannerVars>>

\* a planner thread calls isStateValid(state); it takes no lock
IsStateValid ==
    /\ \E cell \in Cells :
          \E o \in isStateValidOf(plugin, cell, is_octomap_ready_, octomap_msg_, fcl_octree_,
                                  fcl_tree_from_octomap_once_) :
             /\ validity' = [called |-> TRUE, state |-> cell, ready |-> is_octomap_ready_,
                             received |-> delivered > 1 \/ (delivered = 1 /\ callback.pc \in {"done", "idle"}),
                             ret |-> o.ret, collision |-> o.collision, tested |-> o.tested,
                             crashed |-> o.crashed]
             /\ fcl_octree_' = o.tree
             /\ fcl_tree_from_octomap_once_' = o.once
    /\ plan' = NoCall
    /\ UNCHANGED <<plugin, is_enabled_, is_octomap_ready_, octomap_msg_, octomap_mutex_,
                   callback, delivered, start_state, result_state, propagations,
                   plannerVars>>

\* the planner server calls createPlan(start, goal)
CreatePlan ==
    /\ \E solved \in PlannerStatus, n \in 1..MaxPoses :
          plan' = createPlan(is_enabled_, solved, [k \in 1..n |-> k - 1])
    /\ validity' = NoCall
    /\ UNCHANGED <<plugin, is_enabled_, is_octomap_ready_, octomap_msg_, fcl_octree_,
                   fcl_tree_from_octomap_once_, octomap_mutex_, callback, delivered,
                   start_state, result_state, propagations, plannerVars>>

\* the control-space planner calls propagate on its two state objects
Propagate ==
    /\ plugin = "SE2PlannerControlSpace"
    /\ Len(propagations) < MaxPropagations
    /\ \E control \in PlanControls, duration \in 1..MaxDuration :
          LET r == propagate(start_state, control, duration, result_state)
          IN  /\ start_state' = r.start
              /\ result_state' = r.result
              /\ propagations' = Append(propagations,
                                        [start |-> start_state, control |-> control,
                                         duration |-> duration, start_after |-> r.start,
                                         result |-> r.result])
    /\ validity' = NoCall
    /\ plan' = NoCall
    /\ UNCHANGED <<plugin, is_enabled_, is_octomap_ready_, octomap_msg_, fcl_octree_,
                   fcl_tree_from_octomap_once_, octomap_mutex_, callback, delivered,
                   plannerVars>>

NextPlugins ==
    \/ OctomapLock \/ OctomapFirst \/ OctomapSecond \/ OctomapUnlock
    \/ IsStateValid \/ CreatePlan \/ Propagate

SpecPlugins == InitPlugins /\ [][NextPlugins]_vars

----------------------------------------------------------------------------
(* Claims about computeShortestPath *)

\* C1: computeShortestPath reports its outcome by value only.  No call ends
\* with an exception leaving it; a call that has returned holds a non-empty
\* vertex list exactly when the goal vertex was served from the queue, and an
\* empty list only with the frontier exhausted.
C1_OutcomeByValue ==
    /\ srch.st # "escaped"
    /\ (srch.st = "returned" /\ srch.fn = "computeShortestPath") =>
          /\ (srch.shortest_path # << >>) <=> (srch.goal_vertex \in srch.examined)
          /\ srch.shortest_path = << >> => srch.Q = << >>
          /\ srch.exc = "none"

\* a call that found its goal two or more vertices away and returned the list
C1_Witness ==
    /\ srch.st = "returned"
    /\ srch.fn = "computeShortestPath"
    /\ Len(srch.shortest_path) >= 2
    /\ srch.goal_vertex \in srch.examined
    /\ srch.num_visits >= 2


----------------------------------------------------------------------------
(* Claims about the driver *)

Terminal == status \in {"Solved", "NoSolution"}

Merged(t) == pc[t] \in {"loop", "exit"} /\ found[t] # NoPaths

\* C2: within one solve, each best-path record (geometric and control, cost
\* and path) is replaced only by a path of strictly lower cost, so that the
\* recorded best cost never rises, whatever the rounds and their interleaving.
C2_ReplacedOnlyByStrictlyLower ==
    [][/\ bestGeometricCost_' <= bestGeometricCost_
       /\ bestControlCost_' <= bestControlCost_
       /\ <<bestGeometricCost_, bestGeometricPath_>>' # <<bestGeometricCost_, bestGeometricPath_>>
             => bestGeometricCost_' < bestGeometricCost_
       /\ <<bestControlCost_, bestControlPath_>>' # <<bestControlCost_, bestControlPath_>>
             => bestControlCost_' < bestControlCost_]_vars

\* a worker has merged a geometric path worse than the recorded one, and the
\* record stands; a control path is recorded too
C2_Witness ==
    \E t \in Threads :
        /\ Merged(t)
        /\ found[t].geometric # << >>
        /\ bestGeometricCost_ < found[t].geometricCost
        /\ bestGeometricPath_ # << >>
        /\ bestControlPath_ # << >>

\* C3: once the termination condition has tripped and the workers have left
\* their loops, solve returns the record: Solved only with a recorded path,
\* which no path a worker merged beats, and NoSolution only if no worker ever
\* found a path.
C3_StatusTellsRecord ==
    /\ status = "Solved" =>
          /\ bestGeometricPath_ # << >> \/ bestControlPath_ # << >>
          /\ \A t \in Threads : /\ bestGeometricCost_ <= found[t].geometricCost
                                /\ bestControlCost_ <= found[t].controlCost
    /\ status = "NoSolution" =>
          /\ bestGeometricPath_ = << >> /\ bestControlPath_ = << >>
          /\ bestGeometricCost_ = Infinity /\ bestControlCost_ = Infinity
          /\ \A t \in Threads : found[t] = NoPaths
    /\ Terminal => ptc /\ \A t \in Threads : pc[t] = "exit"

\* solve returned Solved with a record better than the last path of a worker
C3_Witness ==
    /\ status = "Solved"
    /\ rounds = MaxRounds
    /\ \E t \in Threads : found[t].geometric # << >>
                          /\ bestGeometricCost_ < found[t].geometricCost

\* C4: with the start state equal to the goal state, a solve that ran a
\* round returns Solved with a zero-cost path of at most one waypoint.
C4_StartIsGoal ==
    (start_vertex_.state = goal_vertex_.state /\ Terminal /\ rounds > 0) =>
        /\ status = "Solved"
        /\ bestGeometricCost_ = 0
        /\ Len(bestGeometricPath_) <= 1

\* the vertices of g joined to vertex s by a chain of edges
RECURSIVE Reach(_, _)
Reach(g, R) ==
    LET R1 == R \cup {v \in vertices(g) : \E u \in R : Edge(u, v) \in g.E}
    IN  IF R1 = R THEN R ELSE Reach(g, R1)

\* C5: with an oracle that rejects every state (and the goal away from the
\* start), a solve that ran a round ends with NoSolution, and every vertex
\* reachable from the start is blacklisted.
C5_AllBlocked ==
    (Valid = {} /\ start_vertex_.state # goal_vertex_.state /\ Terminal /\ rounds > 0) =>
        /\ status = "NoSolution"
        /\ \A t \in Threads : <<t, t>> \in touched =>
              \A v \in Reach(g_geometrics_[t], {start_vertex_.id}) :
                  g_geometrics_[t].vp[v].blacklisted

Ends == {start_vertex_.id, goal_vertex_.id}

BothGraphs == {g_geometrics_[t] : t \in Threads} \cup {g_controls_[t] : t \in Threads}

\* C6 as stated: in every graph of every thread the start and the goal are
\* present and have blacklisted = false.
C6_NeverBlacklisted ==
    status # "Idle" =>
        \A g \in BothGraphs : \A v \in Ends :
            v \in vertices(g) /\ ~g.vp[v].blacklisted

\* C6, amended: in every graph of every thread the start and the goal are
\* present, with the states they were set up with, and each is blacklisted
\* only if the validity oracle rejects its state.
C6_BlacklistedOnlyIfInvalid ==
    status # "Idle" =>
        \A g \in BothGraphs :
            /\ Ends \subseteq vertices(g)
            /\ g.vp[start_vertex_.id].state = start_vertex_.state
            /\ g.vp[goal_vertex_.id].state = goal_vertex_.state
            /\ \A v \in Ends : g.vp[v].blacklisted => g.vp[v].state \notin Valid

\* the start has been blacklisted by a search, the goal has not
C6_Witness ==
    \E t \in Threads :
        /\ <<t, t>> \in touched
        /\ g_geometrics_[t].vp[start_vertex_.id].blacklisted
        /\ ~g_geometrics_[t].vp[goal_vertex_.id].blacklisted
        /\ goal_vertex_.state \in Valid

\* whether the segment of `duration` steps of control c from state `from`
\* stays inside the bounds and on states the oracle accepts
PassedOracle(from, c, duration) ==
    \A k \in 1..duration :
        LET x == from + (IF c = 1 THEN 0 - k ELSE k)
        IN  x \in States /\ x \in Valid

\* whether vertex v of control graph g was produced from vertex u
ProducedFrom(g, u, v) ==
    /\ g.vp[v].control \in Controls
    /\ g.vp[v].control_duration \in 1..MaxDuration
    /\ PassedOracle(g.vp[u].state, g.vp[v].control, g.vp[v].control_duration)
    /\ g.vp[v].state = g.vp[u].state
          + (IF g.vp[v].control = 1 THEN 0 - 1 ELSE 1) * g.vp[v].control_duration

TooClose(g, u, v) ==
    u # v /\ motionCost(g.vp[u].state, g.vp[v].state) < min_dist_between_vertices_

----------------------------------------------------------------------------
(* Claims about the search passes *)

\* the graph the call in progress, or the last call, runs on
SearchGraph == IF srch.fn = "find_astar_path" THEN g_
               ELSE IF srch.gref.control THEN g_controls_[srch.gref.thread]
               ELSE g_geometrics_[srch.gref.thread]

CollisionChecked == /\ srch.use_full_collision_check /\ ~srch.precompute_heuristic
                    /\ srch.heuristic.kind = "precomputed"

Incident(g, v) == {e \in g.E : v \in e}

\* C14: when a collision-checked search has returned, every vertex it
\* visited whose state the oracle rejects is blacklisted and every edge at it
\* weighs the infinite cost.
C14_VisitedInvalidPruned ==
    (srch.st = "returned" /\ CollisionChecked) =>
        \A v \in srch.examined :
            SearchGraph.vp[v].state \notin Valid =>
                /\ SearchGraph.vp[v].blacklisted
                /\ \A e \in Incident(SearchGraph, v) : SearchGraph.w[e] = Infinity

\* C15: an edge has the infinite weight only if one of its two ends is
\* blacklisted, in every state of every sequence of search passes.
C15_InfiniteOnlyAtBlacklisted ==
    \A t \in Threads : \A e \in g_geometrics_[t].E :
        g_geometrics_[t].w[e] = Infinity =>
            \E v \in e : g_geometrics_[t].vp[v].blacklisted

\* a pass has returned its path and marked an edge, beside an edge left
\* finite between two vertices that are not blacklisted
C15_Witness ==
    /\ srch.st = "returned"
    /\ srch.shortest_path # << >>
    /\ \E e \in SearchGraph.E : SearchGraph.w[e] = Infinity
    /\ \E e \in SearchGraph.E :
          SearchGraph.w[e] < Infinity /\ \A v \in e : ~SearchGraph.vp[v].blacklisted

\* what a search pass may not change: the vertices, their ids, states and
\* controls, and the edges
Structure(g) ==
    [vp |-> [v \in vertices(g) |->
                [id |-> g.vp[v].id, state |-> g.vp[v].state, control |-> g.vp[v].control,
                 control_duration |-> g.vp[v].control_duration]],
     E |-> g.E, dom |-> DOMAIN g.w]

\* C16: no step of a search pass adds or removes a vertex or an edge or
\* changes a vertex id; only g, blacklisted and the edge weights may change.
C16_StructureKept ==
    [][\A t \in Threads :
          /\ Structure(g_geometrics_'[t]) = Structure(g_geometrics_[t])
          /\ Structure(g_controls_'[t]) = Structure(g_controls_[t])]_vars

\* a pass has returned having changed a g value, a blacklisted flag and an
\* edge weight of the graph it was called on
C16_Witness ==
    /\ srch.st = "returned"
    /\ \E v \in vertices(SearchGraph) : SearchGraph.vp[v].g # srch.g0.vp[v].g
    /\ \E v \in vertices(SearchGraph) :
          SearchGraph.vp[v].blacklisted /\ ~srch.g0.vp[v].blacklisted
    /\ \E e \in SearchGraph.E : SearchGraph.w[e] # srch.g0.w[e]

\* the shortest-path distances from s in g, by at most n rounds of relaxation
RECURSIVE Distances(_, _, _)
Distances(g, dist, n) ==
    LET next == [v \in vertices(g) |->
                   LET via == {Plus(dist[u], g.w[Edge(u, v)]) :
                                 u \in {x \in vertices(g) : Edge(x, v) \in g.E /\ x # v}}
                       all == via \cup {dist[v]}
                   IN  CHOOSE m \in all : \A x \in all : m <= x]
    IN  IF n = 0 \/ next = dist THEN dist ELSE Distances(g, next, n - 1)

ShortestDistance(g, s) ==
    Distances(g, [v \in vertices(g) |-> IF v = s THEN 0 ELSE DistanceInf], num_vertices(g))

\* C17: when a pass over the geometric graph has returned, found or not,
\* every vertex reachable from the start and not blacklisted has g equal to
\* its shortest-path distance from the start.
C17_GIsShortestDistance ==
    (srch.st = "returned" /\ srch.fn = "computeShortestPath" /\ ~srch.gref.control) =>
        \A v \in Reach(SearchGraph, {srch.start_vertex}) :
            ~SearchGraph.vp[v].blacklisted =>
                SearchGraph.vp[v].g = ShortestDistance(srch.g0, srch.start_vertex)[v]

\* C18: when a precomputation pass has returned, every vertex of the graph
\* has g equal to its shortest-path distance to the vertex the pass started
\* from, whether or not the target was reached.
C18_PrecomputeAssignsAll ==
    (srch.st = "returned" /\ srch.precompute_heuristic) =>
        \A v \in vertices(SearchGraph) :
            SearchGraph.vp[v].g = ShortestDistance(srch.g0, srch.start_vertex)[v]

\* the call has returned and reports the goal found: a list that is not
\* empty from computeShortestPath, true from find_astar_path
ReportsFound ==
    /\ srch.st = "returned"
    /\ IF srch.fn = "find_astar_path" THEN srch.ret ELSE srch.shortest_path # << >>

\* the vertices the backpointer walk has put in the list: all of it but what
\* the list held at entry
WalkedPart ==
    SubSeq(srch.shortest_path, 1, Len(srch.shortest_path) - Len(srch.given))

\* path runs from the start to the goal of the call along predecessor links
\* that are edges of the graph, and repeats no vertex
WellFormed(path) ==
    /\ ~srch.diverged
    /\ path # << >>
    /\ path[1] = srch.start_vertex
    /\ path[Len(path)] = srch.goal_vertex
    /\ \A j, k \in 1..Len(path) : path[j] = path[k] => j = k
    /\ \A k \in 1..(Len(path) - 1) :
          /\ srch.p[path[k + 1]] = path[k]
          /\ Edge(path[k], path[k + 1]) \in SearchGraph.E

\* C19: whenever computeShortestPath or find_astar_path reports the goal
\* found, the walk has terminated and the list it filled (without what the
\* list of find_astar_path's caller held at entry) runs from the start to
\* the goal without a repeat, each vertex the predecessor of the next and
\* joined to it by an edge.
C19_FoundListWellFormed == ReportsFound => WellFormed(WalkedPart)

\* C20: a pass returns no path through a vertex that was blacklisted when
\* the pass began, and that vertex and its edges are still in the graph.
C20_BlacklistedAvoided ==
    srch.st = "returned" =>
        \A v \in vertices(srch.g0) :
            srch.g0.vp[v].blacklisted =>
                /\ \A k \in 1..Len(srch.shortest_path) : srch.shortest_path[k] # v
                /\ v \in vertices(SearchGraph)
                /\ Incident(SearchGraph, v) = Incident(srch.g0, v)

----------------------------------------------------------------------------
(* Claims about the planner plugins *)

\* C11: createPlan of a disabled plugin returns no pose and makes no
\* planner; of an enabled plugin it returns poses only if the status of
\* solve converts to true, and no pose otherwise.
C11_PlanOnlyIfSolved ==
    plan.called =>
        /\ ~is_enabled_ => (plan.plan_poses = << >> /\ ~plan.planner)
        /\ is_enabled_ =>
              /\ plan.planner
              /\ plan.plan_poses # << >> => Solved(plan.solved)
              /\ ~Solved(plan.solved) => plan.plan_poses = << >>

\* an enabled plugin has returned the poses of an approximate solution
C11_Witness ==
    /\ plan.called
    /\ is_enabled_
    /\ plan.solved = "APPROXIMATE_SOLUTION"
    /\ Len(plan.plan_poses) = MaxPoses

\* what propagate is to write into result, from the start state, the control
\* and the duration alone
Propagated(start, control, duration) ==
    CompoundState(start.x + start.v * duration * Cos(start.yaw),
                  start.y + start.v * duration * Sin(start.yaw),
                  start.yaw + start.v * Tan(control[2]) * duration,
                  start.v + control[1] * duration)

\* C12: every call of propagate leaves its start state as it was and leaves
\* in result the new position, heading and velocity, so that two calls with
\* the same start, control and duration leave the same result.
C12_PropagateIsAFunction ==
    /\ \A k \in 1..Len(propagations) :
          /\ propagations[k].start_after = propagations[k].start
          /\ propagations[k].result =
                Propagated(propagations[k].start, propagations[k].control,
                           propagations[k].duration)
    /\ \A j, k \in 1..Len(propagations) :
          (/\ propagations[j].start = propagations[k].start
           /\ propagations[j].control = propagations[k].control
           /\ propagations[j].duration = propagations[k].duration)
              => propagations[j].result = propagations[k].result

\* C13: a call of isStateValid made once an octomap has been received
\* returns true exactly when the collision test of the robot body at the
\* state with the map reports no collision, in either plugin.
C13_ValidIffNoCollision ==
    (validity.called /\ validity.received /\ validity.ready) =>
        /\ validity.tested
        /\ validity.ret <=> ~validity.collision

----------------------------------------------------------------------------
(* Further claims about the search passes *)

\* C21: a path returned by a search with use_full_collision_check holds no
\* vertex that is blacklisted when the path is returned.
C21_NoBlacklistedOnPath ==
    (srch.st = "returned" /\ srch.fn = "computeShortestPath" /\ srch.use_full_collision_check) =>
        \A k \in 1..Len(srch.shortest_path) :
            ~SearchGraph.vp[srch.shortest_path[k]].blacklisted


----------------------------------------------------------------------------
(* The helper functions, call after call on drawn inputs *)

\* what a vertex of a control graph records: no control and no duration, or
\* the control that reached it and its duration
RecordedControls ==
    {[control |-> 0, control_duration |-> 0]}
        \cup {[control |-> c, control_duration |-> d] : c \in Controls, d \in 1..MaxDuration}

\* the vertex lists handed to populateOmplPathfromVertexPath
VertexLists == UNION {[1..n -> 1..NV] : n \in 0..NV}

InitFunctions ==
    /\ \E rec \in [1..NV -> RecordedControls] :
           g_controls_ = [t \in Threads |->
               IF t = 0
               THEN [vp |-> [i \in 1..NV |->
                                VertexProperty(i - 1, rec[i].control, rec[i].control_duration, i)],
                     E |-> {}, w |-> << >>]
               ELSE EmptyGraph]
    /\ g_geometrics_ = [t \in Threads |-> EmptyGraph]
    /\ NoPlugin
    /\ Valid = {}
    /\ start_vertex_ = VertexProperty(0, 0, 0, 1)
    /\ goal_vertex_ = VertexProperty(1, 0, 0, 2)
    /\ max_dist_between_vertices_ = 0
    /\ g_ = EmptyGraph
    /\ supervoxel_clusters_ = {}
    /\ geometrics_nn_ = [t \in Threads |-> {}]
    /\ controls_nn_ = [t \in Threads |-> {}]
    /\ srch = IdleFrame
    /\ passes = 0
    /\ bestGeometricCost_ = Infinity
    /\ bestGeometricPath_ = << >>
    /\ bestControlCost_ = Infinity
    /\ bestControlPath_ = << >>
    /\ mutex = NoThread
    /\ status = "Idle"
    /\ ptc = FALSE
    /\ pc = [t \in Threads |-> "idle"]
    /\ rounds = 0
    /\ samples = [t \in Threads |-> << >>]
    /\ found = [t \in Threads |-> NoPaths]
    /\ touched = {}

\* everything a helper function leaves alone, the control graphs apart
functionVars ==
    <<Valid, start_vertex_, goal_vertex_, max_dist_between_vertices_, refinerVars, pluginVars,
      g_geometrics_, searchVars, driverVars>>

\* one call of populateOmplPathfromVertexPath on the control graph of thread 0
PopulateOmplPath ==
    \E vertex_path \in VertexLists :
        LET r == populateOmplPathfromVertexPath(vertex_path, g_controls_[0], << >>, 0)
        IN  /\ g_controls_' = [g_controls_ EXCEPT ![0] = r.g]
            /\ call' = [called |-> TRUE, fn |-> "populateOmplPathfromVertexPath",
                        vertex_path |-> vertex_path, g |-> g_controls_[0], path |-> r.path]
            /\ UNCHANGED functionVars

\* declare_parameter(plugin_name + ".planner_name", "PRMStar"), in both plugins
DefaultPlannerName(p) == "PRMStar"

\* the planner names a configuration may give
PlannerNames ==
    {"RRT", "SST", "EST", "KPIECE1", "PRMstar", "PRMStar", "RRTstar", "RRTConnect", "BITstar"}

Planner(library, class, warned) == [library |-> library, class |-> class, warned |-> warned]

\* SE2PlannerControlSpace::initializeSelectedPlanner: the planner assigned,
\* and whether the warning of the else branch was given
initializeSelectedPlanner_SE2(selected_planner_name) ==
    IF selected_planner_name = "RRT" THEN Planner("control", "RRT", FALSE)
    ELSE IF selected_planner_name = "SST" THEN Planner("control", "SST", FALSE)
    ELSE IF selected_planner_name = "EST" THEN Planner("control", "EST", FALSE)
    ELSE IF selected_planner_name = "KPIECE1" THEN Planner("control", "KPIECE1", FALSE)
    ELSE IF selected_planner_name = "PRMstar" THEN Planner("geometric", "PRMstar", FALSE)
    ELSE IF selected_planner_name = "RRTstar" THEN Planner("geometric", "RRTstar", FALSE)
    ELSE Planner("control", "KPIECE1", TRUE)

\* SE3Planner::initializeSelectedPlanner
initializeSelectedPlanner_SE3(selected_planner_name) ==
    IF selected_planner_name = "PRMStar" THEN Planner("geometric", "PRMstar", FALSE)
    ELSE IF selected_planner_name = "RRTstar" THEN Planner("geometric", "RRTstar", FALSE)
    ELSE IF selected_planner_name = "RRTConnect" THEN Planner("geometric", "RRTConnect", FALSE)
    ELSE IF selected_planner_name = "KPIECE1" THEN Planner("geometric", "KPIECE1", FALSE)
    ELSE Planner("geometric", "KPIECE1", TRUE)

initializeSelectedPlanner(p, selected_planner_name) ==
    IF p = "SE3Planner" THEN initializeSelectedPlanner_SE3(selected_planner_name)
    ELSE initializeSelectedPlanner_SE2(selected_planner_name)

\* createPlan of plugin p calls initializeSelectedPlanner(planner, planner_name_, si)
InitializeSelectedPlanner ==
    /\ \E p \in Plugins, planner_name_ \in PlannerNames :
          call' = [called |-> TRUE, fn |-> "initializeSelectedPlanner", plugin |-> p,
                   selected_planner_name |-> planner_name_,
                   planner |-> initializeSelectedPlanner(p, planner_name_)]
    /\ UNCHANGED <<functionVars, g_controls_>>

\* largest number of points in a cloud the model draws
MaxCloud == 2

\* largest traversability value a colour of the model converts to
MaxTraversability == 1

\* a pcl::PointXYZRGBA: a position, on the line of the states, and a colour
PointXYZRGBA(x, rgb) == [x |-> x, rgb |-> rgb]

CloudPoints == {PointXYZRGBA(x, rgb) : x \in States, rgb \in 0..MaxTraversability}

Clouds == UNION {[1..n -> CloudPoints] : n \in 0..MaxCloud}

\* vox_nav_utilities::convert_to_value(colour, min, max, colors): its code is
\* outside the sources; the model names a colour by the value it converts to
convert_to_value(rgb) == rgb

\* a quotient of two integers, kept as the pair
Quotient(sum, num) == [sum |-> sum, num |-> num]

RECURSIVE SumTraversability(_, _)
SumTraversability(cloud, i) ==
    IF i > Len(cloud) THEN 0
    ELSE convert_to_value(cloud[i].rgb) + SumTraversability(cloud, i + 1)

\* computeAverageTraversability(cloud, point): the loop runs over every
\* point of the cloud; the parameter point is not used
computeAverageTraversability(cloud, point) ==
    LET sum_traversability == SumTraversability(cloud, 1)
        num_points == Len(cloud)
    IN  IF num_points = 0 THEN Quotient(0, 1)
        ELSE Quotient(sum_traversability, num_points)

\* one call of computeAverageTraversability
ComputeAverageTraversability ==
    /\ \E cloud \in Clouds, point \in CloudPoints :
          call' = [called |-> TRUE, fn |-> "computeAverageTraversability", cloud |-> cloud,
                   point |-> point, result |-> computeAverageTraversability(cloud, point)]
    /\ UNCHANGED <<functionVars, g_controls_>>

NextFunctions ==
    \/ PopulateOmplPath

SpecFunctions == InitFunctions /\ [][NextFunctions]_vars

\* the plugins' and the refiner's helpers use none of the planner's state
InitUtilities ==
    /\ g_controls_ = [t \in Threads |-> EmptyGraph]
    /\ g_geometrics_ = [t \in Threads |-> EmptyGraph]
    /\ NoPlugin
    /\ Valid = {}
    /\ start_vertex_ = VertexProperty(0, 0, 0, 1)
    /\ goal_vertex_ = VertexProperty(1, 0, 0, 2)
    /\ max_dist_between_vertices_ = 0
    /\ g_ = EmptyGraph
    /\ supervoxel_clusters_ = {}
    /\ geometrics_nn_ = [t \in Threads |-> {}]
    /\ controls_nn_ = [t \in Threads |-> {}]
    /\ srch = IdleFrame
    /\ passes = 0
    /\ bestGeometricCost_ = Infinity
    /\ bestGeometricPath_ = << >>
    /\ bestControlCost_ = Infinity
    /\ bestControlPath_ = << >>
    /\ mutex = NoThread
    /\ status = "Idle"
    /\ ptc = FALSE
    /\ pc = [t \in Threads |-> "idle"]
    /\ rounds = 0
    /\ samples = [t \in Threads |-> << >>]
    /\ found = [t \in Threads |-> NoPaths]
    /\ touched = {}

NextUtilities ==
    \/ InitializeSelectedPlanner
    \/ ComputeAverageTraversability

SpecUtilities == InitUtilities /\ [][NextUtilities]_vars

----------------------------------------------------------------------------
(* Claims about the helper functions *)

Populated == call.called /\ call.fn = "populateOmplPathfromVertexPath"

\* the waypoint of a vertex that is appended with its control
ControlWaypoint(v) ==
    [state |-> v.state, control |-> v.control,
     duration |-> v.control_duration * PropagationStepSize]

\* the waypoint of a vertex that is appended as a state alone
StateWaypoint(v) == [state |-> v.state, control |-> 0, duration |-> 0]

\* C22 as stated: one waypoint per vertex in list order, a vertex with a
\* recorded control giving (state, control, control_duration x step size)
\* also when it is the first of the list, a vertex without one a waypoint of
\* zero duration.
C22_ControlKeptAtFront ==
    Populated =>
        /\ Len(call.path) = Len(call.vertex_path)
        /\ \A k \in 1..Len(call.path) :
               LET v == call.g.vp[call.vertex_path[k]]
               IN  IF v.control # 0 THEN call.path[k] = ControlWaypoint(v)
                   ELSE call.path[k].state = v.state /\ call.path[k].duration = 0

\* C22: one waypoint per vertex in list order; the first vertex of the list
\* gives its state alone, whatever control it records; a later vertex with a
\* recorded control gives (state, control, control_duration x step size) and
\* a later vertex without one gives its state with zero duration.
C22_OneWaypointPerVertex ==
    Populated =>
        /\ Len(call.path) = Len(call.vertex_path)
        /\ \A k \in 1..Len(call.path) :
               LET v == call.g.vp[call.vertex_path[k]]
               IN  IF k = 1 THEN call.path[k] = StateWaypoint(v)
                   ELSE IF v.control # 0 THEN call.path[k] = ControlWaypoint(v)
                   ELSE call.path[k].state = v.state /\ call.path[k].duration = 0

C22_Witness ==
    /\ Populated
    /\ Len(call.vertex_path) = 3
    /\ call.g.vp[call.vertex_path[1]].control # 0
    /\ call.g.vp[call.vertex_path[2]].control # 0
    /\ call.g.vp[call.vertex_path[3]].control = 0
    /\ call.path[1].control = 0
    /\ call.path[2].control = call.g.vp[call.vertex_path[2]].control

----------------------------------------------------------------------------
(* Termination of the search passes *)

RECURSIVE SumOver(_, _)
SumOver(f, D) ==
    IF D = {} THEN 0
    ELSE LET x == CHOOSE y \in D : TRUE IN f[x] + SumOver(f, D \ {x})

\* what a turn of the search's loop uses up: the distances still to fall, the
\* vertices still to discover, the queue entries still to serve
Variant(S) ==
    2 * SumOver(S.d, DOMAIN S.d)
        + 2 * Cardinality({v \in DOMAIN S.color : S.color[v] = "white"})
        + Len(S.Q)

InComputeShortestPath ==
    srch.fn = "computeShortestPath" /\ srch.st \in {"run", "exhausted", "thrown"}

\* a call in progress can take its next turn
CanGoOn ==
    IF srch.st = "run"
    THEN \E i \in MinEntries(srch.Q) : search_step(Loaded, i) # {}
    ELSE search_end(Loaded).st \in {"returned", "escaped"}

\* C23: every call of computeShortestPath ends: a call in progress can always
\* take its next turn, every turn of the search's loop ends the loop or uses
\* up some of a natural-number variant, and the ending of the call walks the
\* backpointers to a vertex that is its own predecessor and returns.
C23_SearchTerminates ==
    /\ [](InComputeShortestPath => CanGoOn)
    /\ [][InComputeShortestPath =>
            /\ ~srch'.diverged
            /\ IF srch.st = "run"
               THEN srch'.st # "run" \/ Variant(srch') < Variant(srch)
               ELSE srch'.st \in {"returned", "escaped"}]_vars

C23_Witness ==
    /\ srch.fn = "computeShortestPath"
    /\ srch.st = "returned"
    /\ srch.use_full_collision_check
    /\ srch.heuristic.kind = "precomputed"
    /\ Len(srch.shortest_path) = NV
    /\ \E i \in vertices(SearchGraph) : SearchGraph.vp[i].blacklisted

----------------------------------------------------------------------------
(* The searches over a control graph, call after call *)

\* a geometric graph of n vertices beside the drawn control graph: the same
\* edges, as far as it has the vertices, and the states in the reverse order
GeometricBeside(E, w, n) ==
    [vp |-> [i \in 1..n |-> VertexProperty(NV - i, 0, 0, i)],
     E  |-> {e \in E : e \subseteq 1..n},
     w  |-> [e \in {x \in E : x \subseteq 1..n} |-> w[e]]]

InitControlSearch ==
    /\ Valid \in SUBSET (0..(NV - 1))
    /\ \E E \in SUBSET AllEdges : \E w \in [E -> 1..MaxCost] : \E n \in {NV - 1, NV} :
          /\ g_controls_ = [t \in Threads |-> IF t = 0 THEN DrawnGraph(E, w) ELSE EmptyGraph]
          /\ g_geometrics_ = [t \in Threads |->
                                 IF t = 0 THEN GeometricBeside(E, w, n) ELSE EmptyGraph]
    /\ g_ = EmptyGraph
    /\ supervoxel_clusters_ = {}
    /\ NoPlugin
    /\ srch = IdleFrame
    /\ passes = 0
    /\ geometrics_nn_ = [t \in Threads |-> {}]
    /\ controls_nn_ = [t \in Threads |-> {}]
    /\ start_vertex_ = VertexProperty(0, 0, 0, 1)
    /\ goal_vertex_ = VertexProperty(1, 0, 0, 2)
    /\ max_dist_between_vertices_ = 0
    /\ bestGeometricCost_ = Infinity
    /\ bestGeometricPath_ = << >>
    /\ bestControlCost_ = Infinity
    /\ bestControlPath_ = << >>
    /\ mutex = NoThread
    /\ status = "Idle"
    /\ ptc = FALSE
    /\ pc = [t \in Threads |-> "idle"]
    /\ rounds = 0
    /\ samples = [t \in Threads |-> << >>]
    /\ found = [t \in Threads |-> << >>]
    /\ touched = {}

\* a caller enters computeShortestPath with the control graph of thread 0
CallControlSearch ==
    /\ srch.st \in {"idle", "returned"}
    /\ passes < MaxPasses
    /\ \E s, t \in 1..2, chk \in BOOLEAN, kind \in {"generic", "precomputed"} :
          \E S \in search_init(
                   Frame(g_geometrics_, g_controls_, [control |-> TRUE, thread |-> 0],
                         [kind |-> kind, control |-> TRUE, thread_id |-> 0,
                          goal |-> g_controls_[0].vp[t].state],
                         s, t, FALSE, chk)) :
             Store(S)
    /\ passes' = passes + 1
    /\ UNCHANGED <<problemVars, driverVars>>

NextControlSearch ==
    \/ CallControlSearch \/ SearchStep \/ SearchEnd

SpecControlSearch == InitControlSearch /\ [][NextControlSearch]_vars

\* the vertices the search has discovered: the heuristic has been asked
\* about each of them
Discovered == {i \in DOMAIN srch.d : srch.d[i] < DistanceInf}

----------------------------------------------------------------------------
(* Further claims about the planner plugins *)

\* C25: in SE2PlannerControlSpace, a call of isStateValid that finds
\* is_octomap_ready_ set finds the delivered message in octomap_msg_, and the
\* once-only collision tree is the tree of the delivered message.
C25_TreeFromDeliveredMessage ==
    plugin = "SE2PlannerControlSpace" =>
        /\ (validity.called /\ validity.ready) => octomap_msg_ # EmptyOctomap
        /\ fcl_tree_from_octomap_once_ =>
              /\ octomap_msg_ # EmptyOctomap
              /\ fcl_octree_ = TreeOf(octomap_msg_)

\* C26: a call of isStateValid made while is_octomap_ready_ is false returns
\* false, runs no collision test and leaves the collision tree and the
\* once-flag as they were, in either plugin.
C26_NotReadyNothingDone ==
    [][(IsStateValid /\ ~is_octomap_ready_) =>
          /\ validity'.called
          /\ ~validity'.ret
          /\ ~validity'.tested
          /\ ~validity'.collision
          /\ UNCHANGED <<fcl_octree_, fcl_tree_from_octomap_once_>>]_vars

\* SE3Planner has stored a message and built its tree, has not yet set the
\* flag, and a call of isStateValid has been refused
C26_Witness ==
    /\ plugin = "SE3Planner"
    /\ validity.called
    /\ ~validity.ready
    /\ ~validity.ret
    /\ fcl_octree_ # NoTree
    /\ octomap_msg_ # EmptyOctomap
    /\ ~is_octomap_ready_

\* C27: the octomap is latched: once is_octomap_ready_ is true it stays
\* true; a message once stored in octomap_msg_ is never replaced; a
\* collision tree once built is never built again; and no step of a callback
\* later than the first changes octomap_msg_ or the collision tree.
C27_OctomapLatched ==
    /\ [][is_octomap_ready_ => is_octomap_ready_']_vars
    /\ [][octomap_msg_ # EmptyOctomap => octomap_msg_' = octomap_msg_]_vars
    /\ [][fcl_octree_ # NoTree => fcl_octree_' = fcl_octree_]_vars
    /\ [][fcl_tree_from_octomap_once_ => fcl_tree_from_octomap_once_']_vars
    /\ [][(callback' # callback /\ callback'.msg.id >= 2) =>
             UNCHANGED <<octomap_msg_, fcl_octree_, fcl_tree_from_octomap_once_>>]_vars

\* a second callback, with another map, has come and gone, and the first
\* message and its tree are still held
C27_Witness ==
    /\ delivered = 2
    /\ callback.pc = "idle"
    /\ callback.msg.id = 2
    /\ octomap_msg_.id = 1
    /\ callback.msg.occupied # octomap_msg_.occupied
    /\ is_octomap_ready_
    /\ fcl_octree_ = TreeOf(octomap_msg_)
    /\ validity.called

----------------------------------------------------------------------------
(* A further claim about the plan refiner *)

\* what follows, in the list, what the caller's list held at entry
AppendedPart ==
    SubSeq(srch.shortest_path, Len(srch.given) + 1, Len(srch.shortest_path))

\* C28: find_astar_path lets no exception out; it returns true exactly when
\* there are clusters and the goal can be reached from the start, and then
\* the caller's list is what it was with the path, from the start to the
\* goal, appended; when it returns false the list is what it was.
C28_FoundPathAppended ==
    srch.fn = "find_astar_path" =>
        /\ srch.st # "escaped"
        /\ srch.st = "returned" =>
              /\ srch.ret <=> (/\ supervoxel_clusters_ # {}
                               /\ srch.goal_vertex \in Reach(g_, {srch.start_vertex}))
              /\ ~srch.ret => srch.shortest_path = srch.given
              /\ srch.ret =>
                    /\ Len(srch.shortest_path) > Len(srch.given)
                    /\ SubSeq(srch.shortest_path, 1, Len(srch.given)) = srch.given
                    /\ AppendedPart[1] = srch.start_vertex
                    /\ AppendedPart[Len(AppendedPart)] = srch.goal_vertex

----------------------------------------------------------------------------
(* Claims about the other helper functions *)

Selected == call.called /\ call.fn = "initializeSelectedPlanner"

\* C29: initializeSelectedPlanner always assigns a planner, KPIECE1 when it
\* does not recognise the name; and the default planner_name of each plugin
\* is a name its initializeSelectedPlanner recognises.
C29_DefaultIsRecognised ==
    Selected =>
        /\ call.planner.class # ""
        /\ call.planner.warned => call.planner.class = "KPIECE1"
        /\ call.selected_planner_name = DefaultPlannerName(call.plugin) => ~call.planner.warned

\* the radius r the description of computeAverageTraversability speaks of
Radius == 1

Averaged == call.called /\ call.fn = "computeAverageTraversability"

\* the points of the cloud within the radius of the point
WithinRadius(cloud, point) ==
    {k \in 1..Len(cloud) : distanceFunction(cloud[k].x, point.x) <= Radius}

RECURSIVE SumOf(_, _)
SumOf(cloud, K) ==
    IF K = {} THEN 0
    ELSE LET k == CHOOSE j \in K : TRUE
         IN  convert_to_value(cloud[k].rgb) + SumOf(cloud, K \ {k})

\* C30: computeAverageTraversability(cloud, point) returns the mean of the
\* traversability of the cloud points within the radius of the point, and 0
\* when there is none.
C30_MeanWithinRadius ==
    Averaged =>
        LET near == WithinRadius(call.cloud, call.point)
        IN  IF near = {} THEN call.result.sum = 0
            ELSE call.result.sum * Cardinality(near) = SumOf(call.cloud, near) * call.result.num
====
